---- MODULE Spec2Model ----
(***************************************************************************)
(* radium: tokenizer -> tree builder -> layout engine.                     *)
(*                                                                         *)
(* SpecBuild  models parser/dom.rs  build_tree  (open-element stack).      *)
(* SpecTok    models parser/mod.rs  tokenize    (character scanner).       *)
(* SpecLayout models layout/mod.rs  layout      (block-flow layout).       *)
(* SpecRender models renderer/mod.rs App        (scrolling).               *)
(* Every specification owns its group of variables and leaves the other    *)
(* groups at their idle values.                                            *)
(***************************************************************************)
EXTENDS Integers, Sequences, FiniteSets, TLC

VARIABLES
    \* ---- build_tree (parser/dom.rs) ----
    bt_tokens,   \* the tokens consumed so far by `for token in tokens`
    stack,       \* Vec<Partial>
    bt_pc,       \* "loop" | "done" | "panicked" ("idle": not running)
    forest,      \* the returned Vec<Node> (<<>> until the function returns)
    \* ---- tokenize (parser/mod.rs) ----
    input,       \* the characters of `input: &str`
    chars,       \* Peekable<Chars>: how many characters have been consumed
    tokens,      \* Vec<Token> built so far
    tk_pc,       \* "main" | "body" (inside parse_tag_body) | "done" ("idle")
    tk_name,     \* tokenize's `name` while parse_tag_body runs
    tk_attrs,    \* parse_tag_body's `attrs`
    tk_iter,     \* loop iterations run so far (main loop and tag-body loop)
    \* ---- layout (layout/mod.rs) ----
    nodes,           \* layout's `nodes: &[Node]`
    viewport_width,  \* layout's `viewport_width`
    ctx,             \* layout's `ctx: Ctx` (with the boxes pushed so far)
    y,               \* layout's cursor `y`
    ly_idx,          \* how many of `nodes` the loop of layout has laid out
    ly_pc,           \* "loop" | "done" ("idle": not running)
    ly_returned,     \* the Vec<LayoutBox> each call of layout so far returned
    \* ---- App (renderer/mod.rs) ----
    boxes,       \* App.boxes
    window,      \* App.window: None, or the window's inner height and scale
    scroll_y,    \* App.scroll_y
    rd_redraw,   \* a redraw has been requested and not yet served
    rd_pc        \* "run" | "exited" ("idle": not running)

bt_vars == <<bt_tokens, stack, bt_pc, forest>>
tk_vars == <<input, chars, tokens, tk_name, tk_attrs, tk_pc, tk_iter>>
ly_vars == <<nodes, viewport_width, ctx, y, ly_idx, ly_pc, ly_returned>>
rd_vars == <<boxes, window, scroll_y, rd_redraw, rd_pc>>
vars == <<bt_vars, tk_vars, ly_vars, rd_vars>>

\* ------------------------------------------------------------------ bounds
MaxTokens == 4
MaxNodes == 2
MaxCalls == 2

\* ------------------------------------------------------------- data model
\* HashMap<String, String> as a set of <<key, value>> pairs.
NoAttrs == {}

Doctype == [type |-> "Doctype"]
OpenTag(name, attrs, self_closing) ==
    [type |-> "OpenTag", name |-> name, attrs |-> attrs, self_closing |-> self_closing]
CloseTag(name) == [type |-> "CloseTag", name |-> name]
TextTok(content) == [type |-> "Text", content |-> content]

Element(tag, attrs, children) ==
    [kind |-> "Element", tag |-> tag, attrs |-> attrs, children |-> children]
TextNode(content) == [kind |-> "Text", content |-> content]

Partial(tag, attrs, children) == [tag |-> tag, attrs |-> attrs, children |-> children]

\* The inputs build_tree is driven with: the empty name is a String like any other.
BtNames == {"", "div", "p", "br"}
BtAttrs == {NoAttrs, {<<"id", "x">>}}
BtTexts == {<<"A">>, <<"B">>}

\* ------------------------------------------------------------- build_tree
is_void_drops_br(tag) ==
    tag \in {"area", "base", "col", "embed", "hr", "img", "input",
             "link", "meta", "param", "source", "track", "wbr"}

is_void(tag) ==
    tag \in {"area", "base", "br", "col", "embed", "hr", "img", "input",
             "link", "meta", "param", "source", "track", "wbr"}

VirtualRoot == Partial("", NoAttrs, <<>>)

NoPos == -1

\* stack.iter().rposition(|p| p.tag == name): 0-based index of the last match.
RPositionFirstMatch(st, name) ==
    LET hits == {i \in 1..Len(st) : st[i].tag = name}
    IN IF hits = {} THEN NoPos
       ELSE (CHOOSE i \in hits : \A j \in hits : i <= j) - 1

RPositionTop(st, name) == Len(st) - 1

RPosition(st, name) ==
    LET hits == {i \in 1..Len(st) : st[i].tag = name}
    IN IF hits = {} THEN NoPos
       ELSE (CHOOSE i \in hits : \A j \in hits : i >= j) - 1

\* A builder state while a handler runs: the stack, and whether an unwrap()
\* has panicked.
Running(st) == [stack |-> st, panicked |-> FALSE]
Panicked(st) == [stack |-> st, panicked |-> TRUE]

\* stack.last_mut().unwrap().children.push(node)
PushChildInFront(s, node) ==
    IF s.panicked THEN s
    ELSE IF Len(s.stack) = 0 THEN Panicked(s.stack)
    ELSE Running([s.stack EXCEPT ![Len(s.stack)].children = <<node>> \o @])

PushChild(s, node) ==
    IF s.panicked THEN s
    ELSE IF Len(s.stack) = 0 THEN Panicked(s.stack)
    ELSE Running([s.stack EXCEPT ![Len(s.stack)].children = Append(@, node)])

PopIntoParentDropsNode(s) ==
    IF s.panicked THEN s
    ELSE IF Len(s.stack) = 0 THEN Panicked(s.stack)
    ELSE Running(SubSeq(s.stack, 1, Len(s.stack) - 1))

\* let partial = stack.pop().unwrap(); build the Element;
\* stack.last_mut().unwrap().children.push(node)
PopIntoParent(s) ==
    IF s.panicked THEN s
    ELSE IF Len(s.stack) = 0 THEN Panicked(s.stack)
    ELSE LET partial == s.stack[Len(s.stack)]
             rest == SubSeq(s.stack, 1, Len(s.stack) - 1)
             node == Element(partial.tag, partial.attrs, partial.children)
         IN PushChild(Running(rest), node)

\* while stack.len() > pos + 1 { pop into parent }
RECURSIVE CollapseAbove(_, _)
CollapseAbove(s, pos) ==
    IF ~s.panicked /\ Len(s.stack) > pos + 1
    THEN CollapseAbove(PopIntoParent(s), pos)
    ELSE s

OpenTagArm(st, name, attrs, self_closing) ==
    IF self_closing \/ is_void(name)
    THEN PushChild(Running(st), Element(name, attrs, <<>>))
    ELSE Running(Append(st, Partial(name, attrs, <<>>)))

CloseTagArm(st, name) ==
    LET pos == RPosition(st, name)
    IN IF pos # NoPos
       THEN PopIntoParent(CollapseAbove(Running(st), pos))
       ELSE Running(st)

TextArm(st, content) == PushChild(Running(st), TextNode(content))

\* One iteration of `for token in tokens`.
StepToken(st, token) ==
    CASE token.type = "Doctype"  -> Running(st)
      [] token.type = "OpenTag"  -> OpenTagArm(st, token.name, token.attrs, token.self_closing)
      [] token.type = "CloseTag" -> CloseTagArm(st, token.name)
      [] token.type = "Text"     -> TextArm(st, token.content)

TkIdle ==
    /\ input = <<>>
    /\ chars = 0
    /\ tokens = <<>>
    /\ tk_pc = "idle"
    /\ tk_name = ""
    /\ tk_attrs = {}
    /\ tk_iter = 0

LyIdle ==
    /\ nodes = <<>>
    /\ viewport_width = 0
    /\ ctx = [boxes |-> <<>>]
    /\ y = 0
    /\ ly_idx = 0
    /\ ly_pc = "idle"
    /\ ly_returned = <<>>

RdIdle ==
    /\ boxes = <<>>
    /\ window = [some |-> FALSE]
    /\ scroll_y = 0
    /\ rd_redraw = FALSE
    /\ rd_pc = "idle"

BtIdle ==
    /\ bt_tokens = <<>>
    /\ stack = <<>>
    /\ bt_pc = "idle"
    /\ forest = <<>>

BtInit ==
    /\ bt_tokens = <<>>
    /\ stack = <<VirtualRoot>>
    /\ bt_pc = "loop"
    /\ forest = <<>>
    /\ TkIdle
    /\ LyIdle
    /\ RdIdle

BtConsume(token) ==
    /\ bt_pc = "loop"
    /\ Len(bt_tokens) < MaxTokens
    /\ LET s == StepToken(stack, token)
       IN /\ stack' = s.stack
          /\ bt_pc' = IF s.panicked THEN "panicked" ELSE "loop"
    /\ bt_tokens' = Append(bt_tokens, token)
    /\ UNCHANGED <<forest, tk_vars, ly_vars, rd_vars>>

BtDoctype == BtConsume(Doctype)

BtOpenTag ==
    \E name \in BtNames, attrs \in BtAttrs, self_closing \in BOOLEAN :
        BtConsume(OpenTag(name, attrs, self_closing))

BtCloseTag == \E name \in BtNames : BtConsume(CloseTag(name))

BtText == \E content \in BtTexts : BtConsume(TextTok(content))

\* while stack.len() > 1 { pop into parent }
RECURSIVE Flush(_)
Flush(s) ==
    IF ~s.panicked /\ Len(s.stack) > 1
    THEN Flush(PopIntoParent(s))
    ELSE s

\* End of input: the flush loop, then stack.pop().unwrap().children
BtFinish ==
    /\ bt_pc = "loop"
    /\ LET s == Flush(Running(stack))
       IN IF s.panicked \/ Len(s.stack) = 0
          THEN /\ bt_pc' = "panicked"
               /\ stack' = s.stack
               /\ UNCHANGED forest
          ELSE /\ forest' = s.stack[Len(s.stack)].children
               /\ stack' = SubSeq(s.stack, 1, Len(s.stack) - 1)
               /\ bt_pc' = "done"
    /\ UNCHANGED <<bt_tokens, tk_vars, ly_vars, rd_vars>>

BtNext ==
    \/ BtDoctype
    \/ BtOpenTag
    \/ BtCloseTag
    \/ BtText
    \/ BtFinish

SpecBuild == BtInit /\ [][BtNext]_vars

\* =============================================================== tokenize
\* A &str is the sequence of its chars, each char a one-character string.
\* Tag and attribute names, and attribute values, are kept as strings (they are
\* only compared); text is kept as its sequence of chars.
RECURSIVE Join(_)
Join(s) == IF s = <<>> THEN "" ELSE Head(s) \o Join(Tail(s))

LowerLetters == <<"a", "b", "c", "d", "e", "f", "g", "h", "i", "j", "k", "l", "m",
                  "n", "o", "p", "q", "r", "s", "t", "u", "v", "w", "x", "y", "z">>
UpperLetters == <<"A", "B", "C", "D", "E", "F", "G", "H", "I", "J", "K", "L", "M",
                  "N", "O", "P", "Q", "R", "S", "T", "U", "V", "W", "X", "Y", "Z">>
Digits == {"0", "1", "2", "3", "4", "5", "6", "7", "8", "9"}

Range(f) == {f[i] : i \in DOMAIN f}

\* char::is_whitespace
is_whitespace(c) == c \in {" ", "\n", "\t", "\r"}

\* char::is_alphanumeric
is_alphanumeric(c) == c \in Range(LowerLetters) \cup Range(UpperLetters) \cup Digits

\* str::to_lowercase, char by char
to_lowercase(str) ==
    [k \in 1..Len(str) |->
        IF str[k] \in Range(UpperLetters)
        THEN LowerLetters[CHOOSE i \in 1..Len(UpperLetters) : UpperLetters[i] = str[k]]
        ELSE str[k]]

\* chars.peek(): NoChar is None.
NoChar == ""
peek(inp, i) == IF i < Len(inp) THEN inp[i + 1] ELSE NoChar

\* chars.next(): the position after it.
next(inp, i) == IF i < Len(inp) THEN i + 1 ELSE i

RECURSIVE read_name_loop(_, _, _)
read_name_loop(inp, i, name) ==
    LET c == peek(inp, i)
    IN IF c # NoChar /\ (is_alphanumeric(c) \/ c = "-" \/ c = "_" \/ c = ":")
       THEN read_name_loop(inp, next(inp, i), Append(name, c))
       ELSE [name |-> name, chars |-> i]

read_name(inp, i) == read_name_loop(inp, i, <<>>)

skip_until_stays(inp, i, stop) == i

RECURSIVE skip_until(_, _, _)
skip_until(inp, i, stop) ==
    LET c == peek(inp, i)
    IN IF c # NoChar /\ c # stop THEN skip_until(inp, next(inp, i), stop) ELSE i

RECURSIVE skip_whitespace(_, _)
skip_whitespace(inp, i) ==
    IF peek(inp, i) # NoChar /\ is_whitespace(peek(inp, i))
    THEN skip_whitespace(inp, next(inp, i))
    ELSE i

RECURSIVE read_attr_name_loop(_, _, _)
read_attr_name_loop(inp, i, name) ==
    LET c == peek(inp, i)
    IN IF c = NoChar \/ is_whitespace(c) \/ c = "=" \/ c = ">" \/ c = "/"
       THEN [name |-> name, chars |-> i]
       ELSE read_attr_name_loop(inp, next(inp, i), Append(name, c))

read_attr_name(inp, i) == read_attr_name_loop(inp, i, <<>>)

\* for c in chars.by_ref() { if c == q { break } value.push(c) }
RECURSIVE read_quoted(_, _, _, _)
read_quoted(inp, i, q, value) ==
    IF peek(inp, i) = NoChar THEN [value |-> value, chars |-> i]
    ELSE IF peek(inp, i) = q THEN [value |-> value, chars |-> next(inp, i)]
    ELSE read_quoted(inp, next(inp, i), q, Append(value, peek(inp, i)))

RECURSIVE read_unquoted(_, _, _)
read_unquoted(inp, i, value) ==
    LET c == peek(inp, i)
    IN IF c = NoChar \/ is_whitespace(c) \/ c = ">"
       THEN [value |-> value, chars |-> i]
       ELSE read_unquoted(inp, next(inp, i), Append(value, c))

read_attr_value(inp, i) ==
    IF peek(inp, i) \in {"\"", "'"}
    THEN read_quoted(inp, next(inp, i), peek(inp, i), <<>>)
    ELSE read_unquoted(inp, i, <<>>)

RECURSIVE read_text_loop(_, _, _)
read_text_loop(inp, i, text) ==
    LET c == peek(inp, i)
    IN IF c = NoChar \/ c = "<"
       THEN [text |-> text, chars |-> i]
       ELSE read_text_loop(inp, next(inp, i), Append(text, c))

read_text(inp, i) == read_text_loop(inp, i, <<>>)

\* str::trim_end
RECURSIVE trim_end(_)
trim_end(str) ==
    IF str # <<>> /\ is_whitespace(str[Len(str)])
    THEN trim_end(SubSeq(str, 1, Len(str) - 1))
    ELSE str

RECURSIVE collapse_loop(_, _, _)
collapse_loop(str, result, prev_ws) ==
    IF str = <<>> THEN result
    ELSE LET c == Head(str)
         IN IF is_whitespace(c)
            THEN IF ~prev_ws
                 THEN collapse_loop(Tail(str), Append(result, " "), TRUE)
                 ELSE collapse_loop(Tail(str), result, prev_ws)
            ELSE collapse_loop(Tail(str), Append(result, c), FALSE)

collapse_whitespace_keeps_tail(str) == collapse_loop(str, <<>>, TRUE)

collapse_whitespace(str) == trim_end(collapse_loop(str, <<>>, TRUE))

\* HashMap::insert
insert(attrs, key, value) == {kv \in attrs : kv[1] # key} \cup {<<key, value>>}

\* ---- inputs
MaxInput == 5
MaxIter == 40

TkAlphabet == {"<", ">", "/", "!", "?", "=", "\"", "\n", "a", "A", "3"}

\* Every string of exactly n characters of the alphabet.
ShortInputs(n) == [1..n -> TkAlphabet]

\* "<" n ">" text "</" n ">"
Tagged(n, text) == <<"<">> \o n \o <<">">> \o text \o <<"<", "/">> \o n \o <<">">>

TkDocuments ==
    {Tagged(n, text) :
        n \in {<<"p">>, <<"P">>, <<"h", "1">>, <<"D", "i", "v">>},
        text \in {<<"H", "i">>, <<" ", " ", "a", " ", " ", " ", "b", "\n", " ", "c", " ">>}}
    \cup {<<"<", "b", "r", "/", ">">>, <<"<", "b", "r", ">">>,
          <<"<", "d", "i", "v", ">", "<", "p", ">", "A", "<", "/", "d", "i", "v", ">">>,
          <<"<", "p", ">", "A", "<", "/", "b", ">", "B", "<", "/", "p", ">">>,
          <<"I", " ", "<", "3", " ", "y", "o", "u", ">", "!">>,
          <<"<", "a", " ", "h", "r", "e", "f", "=", "'", "x", " ", ">", "y">>,
          <<"<", "i", "m", "g", " ", "S", "r", "c", "=", "a", " ", "a", "l", "t", "/", ">">>}

TkInit ==
    /\ \/ \E n \in 0..MaxInput : input \in ShortInputs(n)
       \/ input \in TkDocuments
    /\ chars = 0
    /\ tokens = <<>>
    /\ tk_pc = "main"
    /\ tk_name = ""
    /\ tk_attrs = {}
    /\ tk_iter = 0
    /\ BtIdle
    /\ LyIdle
    /\ RdIdle

\* One more loop iteration is run.
TkIteration ==
    /\ tk_iter < MaxIter
    /\ tk_iter' = tk_iter + 1

\* `<` then `/`: a close tag.
TkCloseTagKeepsEmptyName ==
    /\ tk_pc = "main"
    /\ TkIteration
    /\ peek(input, chars) = "<"
    /\ peek(input, next(input, chars)) = "/"
    /\ LET r == read_name(input, next(input, next(input, chars)))
       IN /\ chars' = next(input, skip_until(input, r.chars, ">"))
          /\ tokens' = Append(tokens, CloseTag(Join(to_lowercase(r.name))))
    /\ UNCHANGED <<input, tk_pc, tk_name, tk_attrs, bt_vars, ly_vars, rd_vars>>

TkCloseTagKeepsCase ==
    /\ tk_pc = "main"
    /\ TkIteration
    /\ peek(input, chars) = "<"
    /\ peek(input, next(input, chars)) = "/"
    /\ LET r == read_name(input, next(input, next(input, chars)))
       IN /\ chars' = next(input, skip_until(input, r.chars, ">"))
          /\ tokens' = IF r.name # <<>>
                       THEN Append(tokens, CloseTag(Join(r.name)))
                       ELSE tokens
    /\ UNCHANGED <<input, tk_pc, tk_name, tk_attrs, bt_vars, ly_vars, rd_vars>>

TkCloseTag ==
    /\ tk_pc = "main"
    /\ TkIteration
    /\ peek(input, chars) = "<"
    /\ peek(input, next(input, chars)) = "/"
    /\ LET r == read_name(input, next(input, next(input, chars)))
       IN /\ chars' = next(input, skip_until(input, r.chars, ">"))
          /\ tokens' = IF r.name # <<>>
                       THEN Append(tokens, CloseTag(Join(to_lowercase(r.name))))
                       ELSE tokens
    /\ UNCHANGED <<input, tk_pc, tk_name, tk_attrs, bt_vars, ly_vars, rd_vars>>

\* `<` then `!`: doctype or comment.
TkDoctype ==
    /\ tk_pc = "main"
    /\ TkIteration
    /\ peek(input, chars) = "<"
    /\ peek(input, next(input, chars)) = "!"
    /\ chars' = next(input, skip_until(input, next(input, next(input, chars)), ">"))
    /\ tokens' = Append(tokens, Doctype)
    /\ UNCHANGED <<input, tk_pc, tk_name, tk_attrs, bt_vars, ly_vars, rd_vars>>

\* `<` then `?`: processing instruction, no token.
TkProcessingInstruction ==
    /\ tk_pc = "main"
    /\ TkIteration
    /\ peek(input, chars) = "<"
    /\ peek(input, next(input, chars)) = "?"
    /\ chars' = next(input, skip_until(input, next(input, chars), ">"))
    /\ UNCHANGED <<input, tokens, tk_pc, tk_name, tk_attrs, bt_vars, ly_vars, rd_vars>>

\* Default arm, read_name gives the empty name: skip to `>`, continue.
TkEmptyName ==
    /\ tk_pc = "main"
    /\ TkIteration
    /\ peek(input, chars) = "<"
    /\ peek(input, next(input, chars)) \notin {"/", "!", "?"}
    /\ LET r == read_name(input, next(input, chars))
       IN /\ r.name = <<>>
          /\ chars' = next(input, skip_until(input, r.chars, ">"))
    /\ UNCHANGED <<input, tokens, tk_pc, tk_name, tk_attrs, bt_vars, ly_vars, rd_vars>>

\* Default arm, a name was read: parse_tag_body is entered.
TkOpenTagName ==
    /\ tk_pc = "main"
    /\ TkIteration
    /\ peek(input, chars) = "<"
    /\ peek(input, next(input, chars)) \notin {"/", "!", "?"}
    /\ LET r == read_name(input, next(input, chars))
       IN /\ r.name # <<>>
          /\ chars' = r.chars
          /\ tk_name' = Join(to_lowercase(r.name))
    /\ tk_attrs' = {}
    /\ tk_pc' = "body"
    /\ UNCHANGED <<input, tokens, bt_vars, ly_vars, rd_vars>>

\* parse_tag_body, an iteration that breaks (end of input, `>`, `/`):
\* tokenize pushes the OpenTag.
TkBodyBreak ==
    /\ tk_pc = "body"
    /\ TkIteration
    /\ LET i == skip_whitespace(input, chars)
           c == peek(input, i)
       IN /\ c \in {NoChar, ">", "/"}
          /\ LET self_closing == c = "/" /\ peek(input, next(input, i)) = ">"
             IN /\ chars' = IF self_closing THEN next(input, next(input, i))
                            ELSE next(input, i)
                /\ tokens' = Append(tokens, OpenTag(tk_name, tk_attrs, self_closing))
    /\ tk_pc' = "main"
    /\ tk_name' = ""
    /\ tk_attrs' = {}
    /\ UNCHANGED <<input, bt_vars, ly_vars, rd_vars>>

\* parse_tag_body, an iteration that reads one attribute.
TkBodyAttr ==
    /\ tk_pc = "body"
    /\ TkIteration
    /\ LET i == skip_whitespace(input, chars)
           c == peek(input, i)
           r == read_attr_name(input, i)
           j == skip_whitespace(input, r.chars)
       IN /\ c \notin {NoChar, ">", "/"}
          /\ r.name # <<>>
          /\ IF peek(input, j) = "="
             THEN LET v == read_attr_value(input, skip_whitespace(input, next(input, j)))
                  IN /\ tk_attrs' = insert(tk_attrs, Join(to_lowercase(r.name)), Join(v.value))
                     /\ chars' = v.chars
             ELSE /\ tk_attrs' = insert(tk_attrs, Join(to_lowercase(r.name)), "")
                  /\ chars' = j
    /\ UNCHANGED <<input, tokens, tk_pc, tk_name, bt_vars, ly_vars, rd_vars>>

TkBodySkipCharStuck ==
    /\ tk_pc = "body"
    /\ TkIteration
    /\ LET i == skip_whitespace(input, chars)
           c == peek(input, i)
       IN /\ c \notin {NoChar, ">", "/"}
          /\ read_attr_name(input, i).name = <<>>
          /\ chars' = i
    /\ UNCHANGED <<input, tokens, tk_pc, tk_name, tk_attrs, bt_vars, ly_vars, rd_vars>>

\* parse_tag_body, an iteration that skips an unexpected character.
TkBodySkipChar ==
    /\ tk_pc = "body"
    /\ TkIteration
    /\ LET i == skip_whitespace(input, chars)
           c == peek(input, i)
       IN /\ c \notin {NoChar, ">", "/"}
          /\ read_attr_name(input, i).name = <<>>
          /\ chars' = next(input, i)
    /\ UNCHANGED <<input, tokens, tk_pc, tk_name, tk_attrs, bt_vars, ly_vars, rd_vars>>

\* A text run.
TkText ==
    /\ tk_pc = "main"
    /\ TkIteration
    /\ peek(input, chars) \notin {NoChar, "<"}
    /\ LET r == read_text(input, chars)
           collapsed == collapse_whitespace(r.text)
       IN /\ chars' = r.chars
          /\ tokens' = IF collapsed # <<>> THEN Append(tokens, TextTok(collapsed))
                       ELSE tokens
    /\ UNCHANGED <<input, tk_pc, tk_name, tk_attrs, bt_vars, ly_vars, rd_vars>>

\* chars.peek() is None: the loop ends and tokens is returned.
TkReturn ==
    /\ tk_pc = "main"
    /\ peek(input, chars) = NoChar
    /\ tk_pc' = "done"
    /\ UNCHANGED <<input, chars, tokens, tk_name, tk_attrs, tk_iter, bt_vars, ly_vars, rd_vars>>

TkNext ==
    \/ TkCloseTag
    \/ TkDoctype
    \/ TkProcessingInstruction
    \/ TkEmptyName
    \/ TkOpenTagName
    \/ TkBodyBreak
    \/ TkBodyAttr
    \/ TkBodySkipChar
    \/ TkText
    \/ TkReturn

SpecTok == TkInit /\ [][TkNext]_vars

\* ================================================================= layout
\* f32 lengths are fixed-point numbers: Unit steps to one logical unit, so that
\* 1.4 * font_size is exact for the font sizes the engine uses.  Float rounding
\* is not modelled.
Unit == 10

PAGE_PAD == 16 * Unit
MARKER_INDENT == 24 * Unit

\* Style::default()
DefaultStyle ==
    [font_size |-> 16 * Unit, bold |-> FALSE, italic |-> FALSE, color |-> 0,
     underline |-> FALSE, indent |-> 0]

\* PaintCmd (the pixel data of an Image is left out)
TextCmd(content, style) ==
    [cmd |-> "Text", content |-> content, font_size |-> style.font_size,
     bold |-> style.bold, italic |-> style.italic, color |-> style.color,
     underline |-> style.underline]
FillRect(color) == [cmd |-> "FillRect", color |-> color]
HLine(color) == [cmd |-> "HLine", color |-> color]
Image(img_width, img_height) ==
    [cmd |-> "Image", img_width |-> img_width, img_height |-> img_height]

LayoutBox(x, by, width, height, cmd) ==
    [x |-> x, y |-> by, width |-> width, height |-> height, cmd |-> cmd]

\* Option<T>
None == [some |-> FALSE]
Some(v) == [some |-> TRUE, value |-> v]

\* 0x0000EE, 0xAAAAAA, 0x555555
LinkColor == 238
RuleColor == 11184810
MarkerColor == 5592405

Min(a, b) == IF a <= b THEN a ELSE b
Max(a, b) == IF a >= b THEN a ELSE b

\* str::trim
RECURSIVE trim_start(_)
trim_start(str) ==
    IF str # <<>> /\ is_whitespace(Head(str)) THEN trim_start(Tail(str)) ELSE str

trim(str) == trim_end(trim_start(str))

\* HashMap::get
get(attrs, key) ==
    IF \E kv \in attrs : kv[1] = key
    THEN Some((CHOOSE kv \in attrs : kv[1] = key)[2])
    ELSE None

\* image::open(base_dir.join(src)): the directory is the map from the file
\* names it holds to what decoding each yields; any other name fails to open.
OpenErr == [ok |-> FALSE]
Decoded(w, h) == [ok |-> TRUE, width |-> w, height |-> h]
open(base_dir, src) == IF src \in DOMAIN base_dir THEN base_dir[src] ELSE OpenErr

\* format!("{}.", counter)
RECURSIVE format_usize(_)
format_usize(n) ==
    LET digit == <<"0", "1", "2", "3", "4", "5", "6", "7", "8", "9">>[(n % 10) + 1]
    IN IF n < 10 THEN <<digit>> ELSE Append(format_usize(n \div 10), digit)

BulletTwoTiers(depth) == IF depth = 1 THEN <<"U+2022">> ELSE <<"U+25E6">>

\* The bullet glyphs U+2022, U+25E6, U+25AA, one char each.
Bullet(depth) ==
    CASE depth = 1 -> <<"U+2022">>
      [] depth = 2 -> <<"U+25E6">>
      [] OTHER     -> <<"U+25AA">>

\* (style.indent / MARKER_INDENT).round() as usize
Depth(style) == Max(0, (2 * style.indent + MARKER_INDENT) \div (2 * MARKER_INDENT))

\* What a layout function hands back: the returned cursor and the Ctx it mutated.
Ret(ry, c) == [y |-> ry, ctx |-> c]

push(c, box) == [c EXCEPT !.boxes = Append(@, box)]

\* History: every return of a layout function is recorded in ctx.calls with
\* what the call was about (arg: the node, the tag, the children or the attrs),
\* the cursor the call was given and the cursor it returned, and with the number
\* of boxes pushed before the call (from) and by its return (to).
Returned(fn, arg, c, given, r) ==
    [r EXCEPT !.ctx.calls =
        Append(@, [fn |-> fn, arg |-> arg, y |-> given, ret |-> r.y,
                   from |-> Len(c.boxes), to |-> Len(r.ctx.boxes)])]

line_height(font_size) == (font_size * 14) \div 10

layout_img_fills_width(attrs, c, cy) ==
    Returned("layout_img", attrs, c, cy,
      LET src == get(attrs, "src")
      IN IF ~src.some THEN Ret(cy, c)
         ELSE LET img == open(c.base_dir, src.value)
              IN IF ~img.ok THEN Ret(cy, c)
                 ELSE LET display_w == c.width
                          display_h == (img.height * display_w) \div img.width
                      IN Ret(cy + display_h + 8 * Unit,
                             push(c, LayoutBox(c.pad, cy, display_w, display_h,
                                               Image(img.width, img.height)))))

layout_img_leaves_gap(attrs, c, cy) ==
    Returned("layout_img", attrs, c, cy,
      LET src == get(attrs, "src")
          img == IF src.some THEN open(c.base_dir, src.value) ELSE OpenErr
      IN IF ~img.ok THEN Ret(cy + 8 * Unit, c)
         ELSE LET display_w == Min(c.width, img.width * Unit)
                  display_h == (img.height * display_w) \div img.width
              IN Ret(cy + display_h + 8 * Unit,
                     push(c, LayoutBox(c.pad, cy, display_w, display_h,
                                       Image(img.width, img.height)))))

layout_img(attrs, c, cy) ==
    Returned("layout_img", attrs, c, cy,
      LET src == get(attrs, "src")
      IN IF ~src.some THEN Ret(cy, c)
         ELSE LET img == open(c.base_dir, src.value)
              IN IF ~img.ok THEN Ret(cy, c)
                 ELSE LET img_w == img.width
                          img_h == img.height
                          display_w == Min(c.width, img_w * Unit)
                          \* img_h * (display_w / img_w)
                          display_h == (img_h * display_w) \div img_w
                      IN Ret(cy + display_h + 8 * Unit,
                             push(c, LayoutBox(c.pad, cy, display_w, display_h,
                                               Image(img_w, img_h)))))

RECURSIVE layout_node(_, _, _, _)
RECURSIVE layout_element(_, _, _, _, _, _)
RECURSIVE layout_children(_, _, _, _)
RECURSIVE children_loop(_, _, _, _)
RECURSIVE layout_list(_, _, _, _, _)
RECURSIVE list_loop(_, _, _, _, _, _)

\* The for loop of layout_children, from the first remaining child on.
children_loop(children, c, cy, style) ==
    IF children = <<>> THEN Ret(cy, c)
    ELSE LET r == layout_node(Head(children), c, cy, style)
         IN children_loop(Tail(children), r.ctx, r.y, style)

layout_children(children, c, cy, style) ==
    Returned("layout_children", children, c, cy, children_loop(children, c, cy, style))

block(children, c, cy, parent, mt, mb, style) ==
    Returned("block", children, c, cy,
      LET r == layout_children(children, c, cy + mt, style)
      IN Ret(r.y + mb, r.ctx))

heading_without_bottom_margin(children, c, cy, parent_style, font_size, mt, mb, bg, border) ==
    Returned("heading", children, c, cy,
      LET r == layout_children(children, c, cy + mt,
                               [parent_style EXCEPT !.font_size = font_size, !.bold = TRUE])
      IN Ret(r.y, r.ctx))

heading_keeps_font_size(children, c, cy, parent_style, font_size, mt, mb, bg, border) ==
    Returned("heading", children, c, cy,
      LET r == layout_children(children, c, cy + mt, [parent_style EXCEPT !.bold = TRUE])
      IN Ret(r.y + mb, r.ctx))

heading(children, c, cy, parent_style, font_size, mt, mb, bg, border) ==
    Returned("heading", children, c, cy,
      LET style == [parent_style EXCEPT !.font_size = font_size, !.bold = TRUE]
          top == cy + mt
          c1 == IF bg.some
                THEN push(c, LayoutBox(0, top - 6 * Unit, c.viewport_width,
                                       line_height(font_size) + 12 * Unit,
                                       FillRect(bg.value)))
                ELSE c
          r == layout_children(children, c1, top, style)
      IN IF border.some
         THEN Ret(r.y + 5 * Unit + mb,
                  push(r.ctx, LayoutBox(r.ctx.pad, r.y + 4 * Unit, r.ctx.width,
                                        1 * Unit, HLine(border.value))))
         ELSE Ret(r.y + mb, r.ctx))

list_item_marker_last(list_tag, li_children, c, cy, style, counter) ==
    Returned("li", li_children, c, cy,
      LET marker == IF list_tag = "ol"
                    THEN Append(format_usize(counter), ".")
                    ELSE Bullet(Depth(style))
          h == line_height(style.font_size)
          after == layout_children(li_children, c, cy, style)
          c1 == push(after.ctx,
                     LayoutBox(c.pad + style.indent - MARKER_INDENT, cy, MARKER_INDENT, h,
                               TextCmd(marker, [style EXCEPT !.color = MarkerColor,
                                                             !.underline = FALSE])))
      IN Ret(Max(after.y, cy + h) + 4 * Unit, c1))

list_item_without_max(list_tag, li_children, c, cy, style, counter) ==
    Returned("li", li_children, c, cy,
      LET marker == IF list_tag = "ol"
                    THEN Append(format_usize(counter), ".")
                    ELSE Bullet(Depth(style))
          c1 == push(c, LayoutBox(c.pad + style.indent - MARKER_INDENT, cy, MARKER_INDENT,
                                  line_height(style.font_size),
                   TextCmd(marker, [style EXCEPT !.color = MarkerColor,
                                                 !.underline = FALSE])))
          after == layout_children(li_children, c1, cy, style)
      IN Ret(after.y + 4 * Unit, after.ctx))

\* One pass of the for loop of layout_list over an li child: the marker, the
\* li's children, the cursor after the item.  The pass is recorded in the
\* history as "li".
list_item(list_tag, li_children, c, cy, style, counter) ==
    Returned("li", li_children, c, cy,
      LET marker == IF list_tag = "ol"
                    THEN Append(format_usize(counter), ".")
                    ELSE Bullet(Depth(style))
          marker_x == c.pad + style.indent - MARKER_INDENT
          h == line_height(style.font_size)
          c1 == push(c, LayoutBox(marker_x, cy, MARKER_INDENT, h,
                   TextCmd(marker, [style EXCEPT !.color = MarkerColor,
                                                 !.underline = FALSE])))
          after == layout_children(li_children, c1, cy, style)
      IN Ret(Max(after.y, cy + h) + 4 * Unit, after.ctx))

IsLi(child) == child.kind = "Element" /\ child.tag = "li"

list_loop_counts_every_child(list_tag, children, c, cy, style, counter) ==
    IF children = <<>> THEN Ret(cy, c)
    ELSE LET child == Head(children)
         IN IF ~IsLi(child)
            THEN list_loop(list_tag, Tail(children), c, cy, style, counter + 1)
            ELSE LET r == list_item(list_tag, child.children, c, cy, style, counter)
                 IN list_loop(list_tag, Tail(children), r.ctx, r.y, style, counter + 1)

list_loop_lays_out_every_child(list_tag, children, c, cy, style, counter) ==
    IF children = <<>> THEN Ret(cy, c)
    ELSE LET child == Head(children)
             r == IF IsLi(child)
                  THEN list_item(list_tag, child.children, c, cy, style, counter)
                  ELSE layout_node(child, c, cy, style)
         IN list_loop(list_tag, Tail(children), r.ctx, r.y, style,
                      IF IsLi(child) THEN counter + 1 ELSE counter)

\* The for loop of layout_list, from the first remaining child on.
list_loop(list_tag, children, c, cy, style, counter) ==
    IF children = <<>> THEN Ret(cy, c)
    ELSE LET child == Head(children)
         IN IF ~IsLi(child)
            THEN list_loop(list_tag, Tail(children), c, cy, style, counter)
            ELSE LET r == list_item(list_tag, child.children, c, cy, style, counter)
                 IN list_loop(list_tag, Tail(children), r.ctx, r.y, style, counter + 1)

layout_list(list_tag, children, c, cy, style) ==
    Returned("layout_list", list_tag, c, cy, list_loop(list_tag, children, c, cy, style, 1))

SkipTagsWithoutScript == {"head", "title", "style", "meta", "link"}

SkipTags == {"head", "title", "script", "style", "meta", "link"}
ContainerTags == {"html", "body", "div", "section", "article", "main", "header", "footer"}

layout_element(tag, attrs, children, c, cy, style) ==
    Returned("layout_element", tag, c, cy,
      CASE tag \in SkipTags -> Ret(cy, c)
        [] tag \in ContainerTags -> layout_children(children, c, cy, style)
        [] tag = "h1" -> heading(children, c, cy, style, 32 * Unit, 24 * Unit, 16 * Unit, None, None)
        [] tag = "h2" -> heading(children, c, cy, style, 24 * Unit, 20 * Unit, 12 * Unit, None, None)
        [] tag = "h3" -> heading(children, c, cy, style, 20 * Unit, 16 * Unit, 8 * Unit, None, None)
        [] tag = "p" -> block(children, c, cy, style, 0, 16 * Unit, style)
        [] tag \in {"ul", "ol"} ->
             LET inner == [style EXCEPT !.indent = @ + MARKER_INDENT]
                 r == layout_list(tag, children, c, cy + 8 * Unit, inner)
             IN Ret(r.y + 8 * Unit, r.ctx)
        [] tag = "strong" -> layout_children(children, c, cy, [style EXCEPT !.bold = TRUE])
        [] tag = "em" -> layout_children(children, c, cy, [style EXCEPT !.italic = TRUE])
        [] tag = "a" ->
             layout_children(children, c, cy,
                             [style EXCEPT !.color = LinkColor, !.underline = TRUE])
        [] tag = "span" -> layout_children(children, c, cy, style)
        [] tag = "br" -> Ret(cy + line_height(style.font_size), c)
        [] tag = "hr" ->
             LET mid == cy + 8 * Unit
             IN Ret(mid + 1 * Unit + 8 * Unit,
                    push(c, LayoutBox(c.pad, mid, c.width, 1 * Unit, HLine(RuleColor))))
        [] tag = "img" -> layout_img(attrs, c, cy)
        [] OTHER -> layout_children(children, c, cy, style))

layout_node_keeps_blank_text(node, c, cy, style) ==
    Returned("layout_node", node, c, cy,
      IF node.kind = "Text"
      THEN LET h == line_height(style.font_size)
           IN Ret(cy + h,
                  push(c, LayoutBox(c.pad + style.indent, cy, c.width - style.indent, h,
                                    TextCmd(trim(node.content), style))))
      ELSE layout_element(node.tag, node.attrs, node.children, c, cy, style))

layout_node(node, c, cy, style) ==
    Returned("layout_node", node, c, cy,
      IF node.kind = "Text"
      THEN LET text == trim(node.content)
           IN IF text = <<>> THEN Ret(cy, c)
              ELSE LET h == line_height(style.font_size)
                   IN Ret(cy + h,
                          push(c, LayoutBox(c.pad + style.indent, cy,
                                            c.width - style.indent, h,
                                            TextCmd(text, style))))
      ELSE layout_element(node.tag, node.attrs, node.children, c, cy, style))

\* ---- inputs
LyTexts == {<<"x">>, <<" ">>}
LyTags == {"head", "div", "h1", "h2", "h3", "p", "ul", "ol", "li", "strong", "em",
           "a", "span", "br", "hr", "img", "widget"}
LyAttrs(tag) == IF tag = "img" THEN {NoAttrs, {<<"src", "a.png">>}} ELSE {NoAttrs}

RECURSIVE Trees(_)
RECURSIVE Forests(_)
\* All trees of exactly n nodes, and all forests of exactly n nodes.
Trees(n) ==
    IF n = 1
    THEN {TextNode(t) : t \in LyTexts}
         \cup UNION {{Element(tag, a, <<>>) : a \in LyAttrs(tag)} : tag \in LyTags}
    ELSE UNION {{Element(tag, a, f) : a \in LyAttrs(tag), f \in Forests(n - 1)} :
                tag \in LyTags}
Forests(n) ==
    IF n = 0 THEN {<<>>}
    ELSE UNION {{<<t>> \o f : t \in Trees(k), f \in Forests(n - k)} : k \in 1..n}

Txt == TextNode(<<"x">>)
Li(children) == Element("li", NoAttrs, children)
Img == Element("img", {<<"src", "a.png">>}, <<>>)

\* Larger documents: nested lists, numbered items, inline styles, images in flow.
LyDocuments == {
    <<Element("ul", NoAttrs, <<Li(<<Txt, Element("ul", NoAttrs, <<Li(<<Txt,
        Element("ul", NoAttrs, <<Li(<<Txt>>)>>)>>)>>)>>)>>)>>,
    <<Element("ol", NoAttrs, <<Li(<<Txt>>), Txt, Li(<<>>), Li(<<Txt,
        Element("ol", NoAttrs, <<Li(<<Txt>>), Li(<<Txt>>)>>)>>)>>)>>,
    <<Element("h1", NoAttrs, <<Element("a", NoAttrs, <<Element("em", NoAttrs, <<Txt>>)>>), Txt>>),
      Element("p", NoAttrs, <<Element("strong", NoAttrs, <<Txt>>), Txt>>)>>,
    <<Element("head", NoAttrs, <<Element("title", NoAttrs, <<Txt>>)>>),
      Element("body", NoAttrs, <<Element("p", NoAttrs, <<Txt, Img, Txt>>),
                                 Element("hr", NoAttrs, <<>>), Txt>>)>>,
    <<Element("ul", NoAttrs, <<Li(<<Img>>), Li(<<Txt>>)>>), Img, Txt>>,
    <<Txt,
      Element("div", NoAttrs, <<Element("script", NoAttrs, <<Txt>>),
                                Element("style", NoAttrs, <<Element("p", NoAttrs, <<Txt>>)>>),
                                Element("meta", NoAttrs, <<Element("hr", NoAttrs, <<>>)>>),
                                Element("link", NoAttrs, <<Element("ul", NoAttrs, <<Li(<<Txt>>)>>)>>)>>),
      Txt>>,
    <<Element("ul", NoAttrs, <<Li(<<Element("hr", NoAttrs, <<>>), Txt>>)>>)>>,
    <<TextNode(<<"a">>),
      Element("div", NoAttrs,
              <<TextNode(<<"b">>),
                Element("ul", NoAttrs,
                        <<Li(<<TextNode(<<"c">>),
                               Element("ol", NoAttrs, <<Li(<<TextNode(<<"d">>)>>)>>)>>),
                          Li(<<Element("hr", NoAttrs, <<>>), TextNode(<<"e">>)>>)>>)>>),
      TextNode(<<"f">>)>>,
    <<Element("h1", NoAttrs, <<Element("h3", NoAttrs, <<Txt>>), Txt>>),
      Element("a", NoAttrs, <<Element("ul", NoAttrs, <<Li(<<Txt>>)>>)>>), Txt>>,
    <<Element("ul", NoAttrs, <<Li(<<Element("ol", NoAttrs, <<Li(<<Txt>>), Li(<<
        Element("div", NoAttrs, <<Element("ul", NoAttrs, <<Li(<<>>)>>)>>)>>)>>)>>),
        Element("ul", NoAttrs, <<Li(<<Txt>>)>>), Li(<<Txt>>)>>)>>
}

\* The default window is 800 wide; a window can be narrower than the page padding.
LyWidths == {800 * Unit, 20 * Unit}

\* What decoding a.png yields: no such file, a tall image narrower than the
\* content area, an image wider than it.
LyImages == {OpenErr, Decoded(100, 200), Decoded(1000, 500)}

RECURSIVE HasSrc(_)
HasSrc(forest_) ==
    \E i \in 1..Len(forest_) :
        /\ forest_[i].kind = "Element"
        /\ \/ forest_[i].tag = "img" /\ get(forest_[i].attrs, "src").some
           \/ HasSrc(forest_[i].children)

LyDirs(forest_) ==
    IF HasSrc(forest_)
    THEN {[f \in {"a.png"} |-> img] : img \in LyImages}
    ELSE {[f \in {} |-> OpenErr]}

\* ---- layout: one action per pass of `for node in nodes`
\* The Ctx layout builds on entry.
NewCtx(width, base_dir) ==
    [pad |-> PAGE_PAD,
     width |-> width - PAGE_PAD * 2,
     viewport_width |-> width,
     base_dir |-> base_dir,
     boxes |-> <<>>,
     calls |-> <<>>]

\* layout as a function of its arguments: its for loop from the first
\* remaining node on, and the boxes it returns.
RECURSIVE layout_loop(_, _, _)
layout_loop(ns, c, cy) ==
    IF ns = <<>> THEN Ret(cy, c)
    ELSE LET r == layout_node(Head(ns), c, cy, DefaultStyle)
         IN layout_loop(Tail(ns), r.ctx, r.y)

layout(ns, width, base_dir) == layout_loop(ns, NewCtx(width, base_dir), PAGE_PAD).ctx.boxes

LyInit ==
    /\ \/ \E n \in 0..MaxNodes : nodes \in Forests(n)
       \/ nodes \in LyDocuments
    /\ viewport_width \in LyWidths
    /\ \E base_dir \in LyDirs(nodes) : ctx = NewCtx(viewport_width, base_dir)
    /\ y = PAGE_PAD
    /\ ly_idx = 0
    /\ ly_pc = "loop"
    /\ ly_returned = <<>>
    /\ BtIdle
    /\ TkIdle
    /\ RdIdle

LyNode ==
    /\ ly_pc = "loop"
    /\ ly_idx < Len(nodes)
    /\ LET r == layout_node(nodes[ly_idx + 1], ctx, y, DefaultStyle)
       IN /\ y' = r.y
          /\ ctx' = r.ctx
    /\ ly_idx' = ly_idx + 1
    /\ UNCHANGED <<nodes, viewport_width, ly_pc, ly_returned, bt_vars, tk_vars, rd_vars>>

\* `ctx.boxes` is returned.
LyReturn ==
    /\ ly_pc = "loop"
    /\ ly_idx = Len(nodes)
    /\ ly_pc' = "done"
    /\ ly_returned' = Append(ly_returned, ctx.boxes)
    /\ UNCHANGED <<nodes, viewport_width, ctx, y, ly_idx, bt_vars, tk_vars, rd_vars>>

LyCallAgainKeepsCtx ==
    /\ ly_pc = "done"
    /\ Len(ly_returned) < MaxCalls
    /\ y' = PAGE_PAD
    /\ ly_idx' = 0
    /\ ly_pc' = "loop"
    /\ UNCHANGED <<nodes, viewport_width, ctx, ly_returned, bt_vars, tk_vars, rd_vars>>

\* The caller calls layout again with the same arguments (the same forest, the
\* same width, the same directory with the same files): a new Ctx, y at the top.
LyCallAgain ==
    /\ ly_pc = "done"
    /\ Len(ly_returned) < MaxCalls
    /\ ctx' = NewCtx(viewport_width, ctx.base_dir)
    /\ y' = PAGE_PAD
    /\ ly_idx' = 0
    /\ ly_pc' = "loop"
    /\ UNCHANGED <<nodes, viewport_width, ly_returned, bt_vars, tk_vars, rd_vars>>

LyNext ==
    \/ LyNode
    \/ LyReturn
    \/ LyCallAgain

SpecLayout == LyInit /\ [][LyNext]_vars

\* =============================================================== renderer
\* f32 values that may be infinite: `inf` is 1 for +inf, -1 for -inf, 0 for
\* the finite value `v` (in Units).
Finite(v) == [inf |-> 0, v |-> v]
INFINITY == [inf |-> 1, v |-> 0]
NEG_INFINITY == [inf |-> -1, v |-> 0]

\* a + dy for a finite a.
AddF32(a, dy) == IF dy.inf = 0 THEN Finite(a + dy.v) ELSE dy

\* f32::clamp(self, min, max) with finite min <= max.
clamp(v, lo, hi) ==
    IF v.inf = -1 THEN lo
    ELSE IF v.inf = 1 THEN hi
    ELSE IF v.v < lo THEN lo
    ELSE IF v.v > hi THEN hi
    ELSE v.v

\* self.boxes.iter().map(|b| b.y + b.height).fold(0.0_f32, f32::max)
RECURSIVE doc_h(_)
doc_h(bs) ==
    IF bs = <<>> THEN 0
    ELSE Max(doc_h(SubSeq(bs, 1, Len(bs) - 1)), bs[Len(bs)].y + bs[Len(bs)].height)

\* The window: its physical inner height and its scale factor.
Window(height, scale) == Some([height |-> height, scale |-> scale])

\* w.inner_size().height as f32 / w.scale_factor() as f32
LogicalHeight(w) == (w.value.height * Unit) \div w.value.scale

max_scroll(bs, w) ==
    LET viewport_logical == IF w.some THEN LogicalHeight(w) ELSE 600 * Unit
    IN Max(doc_h(bs) - viewport_logical + 16 * Unit, 0)

scroll_by(dy) ==
    /\ scroll_y' = clamp(AddF32(scroll_y, dy), 0, max_scroll(boxes, window))
    /\ rd_redraw' = (window.some \/ rd_redraw)

\* The page step of the keyboard arm: nine tenths of the logical height.
Page(w) == IF w.some THEN (LogicalHeight(w) * 9) \div 10 ELSE 500 * Unit

\* ---- inputs
\* Box lists run is given: none, one line of text, a text and a tall image.
RdLine == LayoutBox(PAGE_PAD, PAGE_PAD, 768 * Unit, line_height(16 * Unit),
                    TextCmd(<<"x">>, DefaultStyle))
RdBoxLists ==
    {<<>>,
     <<RdLine>>,
     <<RdLine, LayoutBox(PAGE_PAD, PAGE_PAD + line_height(16 * Unit), 768 * Unit,
                         1536 * Unit, Image(1000, 2000))>>}
RdScales == {1, 2}
\* Physical inner heights a resize gives the window.
RdHeights == {200, 600, 1000, 1200}
\* MouseScrollDelta: lines (y) or pixels (pos.y).
RdDeltas ==
    {[kind |-> "LineDelta", y |-> v] : v \in {-3, -1, 1}}
        \cup {[kind |-> "PixelDelta", y |-> v] : v \in {-25, 25}}
RdKeys == {"ArrowDown", "ArrowUp", "PageDown", "Space", "PageUp", "Home", "End", "Tab"}

\* run: the App is built with the boxes, no window yet, scroll_y = 0.0.
RdInit ==
    /\ boxes \in RdBoxLists
    /\ window = None
    /\ scroll_y = 0
    /\ rd_redraw = FALSE
    /\ rd_pc = "run"
    /\ BtIdle
    /\ TkIdle
    /\ LyIdle

\* resumed: the window is created 800 x 600 logical pixels.
RdResumed ==
    /\ rd_pc = "run"
    /\ ~window.some
    /\ \E scale \in RdScales : window' = Window(600 * scale, scale)
    /\ UNCHANGED <<boxes, scroll_y, rd_redraw, rd_pc, bt_vars, tk_vars, ly_vars>>

\* The events below are delivered to the window resumed has created.
RdCloseRequested ==
    /\ rd_pc = "run"
    /\ window.some
    /\ rd_pc' = "exited"
    /\ UNCHANGED <<boxes, window, scroll_y, rd_redraw, bt_vars, tk_vars, ly_vars>>

RdMouseWheel ==
    /\ rd_pc = "run"
    /\ window.some
    /\ \E delta \in RdDeltas :
          LET dy == IF delta.kind = "LineDelta" THEN -delta.y * 40 * Unit
                    ELSE -delta.y * Unit
          IN scroll_by(Finite(dy))
    /\ UNCHANGED <<boxes, window, rd_pc, bt_vars, tk_vars, ly_vars>>

RdKey(state, key) ==
    /\ rd_pc = "run"
    /\ window.some
    /\ IF state = "Pressed"
       THEN LET page == Page(window)
            IN CASE key = "ArrowDown" -> scroll_by(Finite(40 * Unit))
                 [] key = "ArrowUp" -> scroll_by(Finite(-40 * Unit))
                 [] key \in {"PageDown", "Space"} -> scroll_by(Finite(page))
                 [] key = "PageUp" -> scroll_by(Finite(-page))
                 [] key = "Home" -> scroll_by(NEG_INFINITY)
                 [] key = "End" -> scroll_by(INFINITY)
                 [] OTHER -> UNCHANGED <<scroll_y, rd_redraw>>
       ELSE UNCHANGED <<scroll_y, rd_redraw>>
    /\ UNCHANGED <<boxes, window, rd_pc, bt_vars, tk_vars, ly_vars>>

RdKeyboardInput == \E state \in {"Pressed", "Released"}, key \in RdKeys : RdKey(state, key)

\* The window has been given another inner height; the handler asks for a
\* redraw and leaves scroll_y as it is.
RdResized ==
    /\ rd_pc = "run"
    /\ window.some
    /\ \E height \in RdHeights : window' = Window(height, window.value.scale)
    /\ rd_redraw' = TRUE
    /\ UNCHANGED <<boxes, scroll_y, rd_pc, bt_vars, tk_vars, ly_vars>>

\* The frame is rendered with the current scroll_y.
RdRedrawRequested ==
    /\ rd_pc = "run"
    /\ window.some
    /\ rd_redraw
    /\ rd_redraw' = FALSE
    /\ UNCHANGED <<boxes, window, scroll_y, rd_pc, bt_vars, tk_vars, ly_vars>>

RdNext ==
    \/ RdResumed
    \/ RdCloseRequested
    \/ RdMouseWheel
    \/ RdKeyboardInput
    \/ RdResized
    \/ RdRedrawRequested

SpecRender == RdInit /\ [][RdNext]_vars

\* ================================================================ claims
\* ---------------------------------------------------------------- helpers
LastToken == bt_tokens[Len(bt_tokens)]

\* The step consumed one token of the given type.
Consumed(type) ==
    /\ bt_pc = "loop"
    /\ Len(bt_tokens') = Len(bt_tokens) + 1
    /\ bt_tokens'[Len(bt_tokens')].type = type

NextToken == bt_tokens'[Len(bt_tokens')]

\* 1-based indices of the frames carrying `name`.
FramesWithTag(st, name) == {i \in 1..Len(st) : st[i].tag = name}

TopmostWithTag(st, name) ==
    CHOOSE i \in FramesWithTag(st, name) : \A j \in FramesWithTag(st, name) : i >= j

\* Frame i of st as a finished element holding, after its own children, the
\* finished frame above it.
RECURSIVE Nested(_, _)
Nested(st, i) ==
    Element(st[i].tag, st[i].attrs,
            IF i < Len(st) THEN Append(st[i].children, Nested(st, i + 1))
            ELSE st[i].children)

RECURSIVE CountNodes(_, _)
CountNodes(ns, kind) ==
    IF ns = <<>> THEN 0
    ELSE LET n == Head(ns)
         IN (IF n.kind = kind THEN 1 ELSE 0)
            + (IF n.kind = "Element" THEN CountNodes(n.children, kind) ELSE 0)
            + CountNodes(Tail(ns), kind)

RECURSIVE CountInFrames(_, _)
CountInFrames(st, kind) ==
    IF st = <<>> THEN 0
    ELSE CountNodes(Head(st).children, kind) + CountInFrames(Tail(st), kind)

CountTokens(type) == Cardinality({i \in 1..Len(bt_tokens) : bt_tokens[i].type = type})

RECURSIVE AllNodes(_)
AllNodes(ns) ==
    IF ns = <<>> THEN {}
    ELSE LET n == Head(ns)
         IN {n} \cup (IF n.kind = "Element" THEN AllNodes(n.children) ELSE {})
                \cup AllNodes(Tail(ns))

IsPrefix(a, b) == Len(a) <= Len(b) /\ SubSeq(b, 1, Len(a)) = a

VoidSet == {"area", "base", "br", "col", "embed", "hr", "img", "input",
            "link", "meta", "param", "source", "track", "wbr"}

\* ---------------------------------------------------------------- C1
\* C1: build_tree is total: for every finite token sequence, names such as the
\* empty string included, no unwrap() of an empty stack is ever reached.
C1_BuildTreeNeverPanics == bt_pc # "panicked"

\* ---------------------------------------------------------------- C2
\* C2: implicit closing: on CloseTag(name) with the topmost frame of that tag
\* at position pos, the frames above pos and then the matched frame are folded,
\* each as the last child of the frame below, the matched element landing in
\* its parent; exactly pos frames stay and no collected child is lost.
C2_ImplicitClose ==
    [][(Consumed("CloseTag") /\ FramesWithTag(stack, NextToken.name) # {})
        => LET pos == TopmostWithTag(stack, NextToken.name) - 1
           IN /\ bt_pc' = "loop"
              /\ Len(stack') = pos
              /\ pos >= 1
              /\ stack' = [SubSeq(stack, 1, pos) EXCEPT
                              ![pos].children = Append(@, Nested(stack, pos + 1))]
      ]_vars

\* The same effect, for every close tag whose match is not the virtual root.
C2_ImplicitCloseAboveRoot ==
    [][(Consumed("CloseTag") /\ FramesWithTag(stack, NextToken.name) # {}
          /\ TopmostWithTag(stack, NextToken.name) > 1)
        => LET pos == TopmostWithTag(stack, NextToken.name) - 1
           IN /\ bt_pc' = "loop"
              /\ Len(stack') = pos
              /\ stack' = [SubSeq(stack, 1, pos) EXCEPT
                              ![pos].children = Append(@, Nested(stack, pos + 1))]
      ]_vars

\* ---------------------------------------------------------------- C3
\* C3: an unmatched close tag is a no-op: when no frame has the tag, the whole
\* stack is unchanged, and "<p>A</x>B" leaves p holding text A then text B.
C3_UnmatchedCloseStep ==
    (Consumed("CloseTag") /\ FramesWithTag(stack, NextToken.name) = {})
        => (stack' = stack /\ bt_pc' = "loop")

C3_Example ==
    bt_tokens = <<OpenTag("p", NoAttrs, FALSE), TextTok(<<"A">>), CloseTag("div"), TextTok(<<"B">>)>>
        => /\ bt_pc = "loop" =>
                stack = <<VirtualRoot, Partial("p", NoAttrs, <<TextNode(<<"A">>), TextNode(<<"B">>)>>)>>
           /\ bt_pc = "done" =>
                forest = <<Element("p", NoAttrs, <<TextNode(<<"A">>), TextNode(<<"B">>)>>)>>

C3_UnmatchedCloseIsNoOp == [][C3_UnmatchedCloseStep]_vars /\ []C3_Example

C3_Witness ==
    /\ bt_tokens = <<OpenTag("p", NoAttrs, FALSE), TextTok(<<"A">>), CloseTag("div"), TextTok(<<"B">>)>>
    /\ bt_pc = "done"
    /\ Len(forest) = 1

\* ---------------------------------------------------------------- C4
\* C4: nothing opened is lost: the tree holds exactly one Element per OpenTag
\* token and one Text node per Text token, closed or not; frames open at end of
\* input are flushed from the top, each into the frame below it.
C4_Counts ==
    /\ bt_pc = "loop" =>
          /\ CountInFrames(stack, "Element") + (Len(stack) - 1) = CountTokens("OpenTag")
          /\ CountInFrames(stack, "Text") = CountTokens("Text")
    /\ bt_pc = "done" =>
          /\ CountNodes(forest, "Element") = CountTokens("OpenTag")
          /\ CountNodes(forest, "Text") = CountTokens("Text")

\* The flush at end of input: the forest is the root's children followed, when
\* frames are open, by the open frames nested top into bottom.
C4_Flush ==
    (bt_pc = "loop" /\ bt_tokens' = bt_tokens /\ stack' # stack)
        => /\ bt_pc' = "done"
           /\ stack' = <<>>
           /\ forest' = IF Len(stack) > 1
                        THEN Append(stack[1].children, Nested(stack, 2))
                        ELSE stack[1].children

C4_NothingLost == []C4_Counts /\ [][C4_Flush]_vars

C4_Witness ==
    /\ bt_pc = "done"
    /\ CountTokens("CloseTag") = 0
    /\ CountNodes(forest, "Element") >= 2
    /\ CountNodes(forest, "Text") >= 1
    /\ Len(forest) = 1

\* ---------------------------------------------------------------- C5
\* C5: a self-closing or void OpenTag is appended as a childless Element to
\* the top frame and never pushed: the depth is unchanged, the element stays
\* childless, and "<br/>" and "<br>" give the same result.
C5_OpenStep ==
    (Consumed("OpenTag") /\ (NextToken.self_closing \/ NextToken.name \in VoidSet))
        => /\ bt_pc' = "loop"
           /\ stack' = [stack EXCEPT ![Len(stack)].children =
                           Append(@, Element(NextToken.name, NextToken.attrs, <<>>))]

\* Children already collected by a frame are never changed or removed.
C5_ChildrenKept ==
    /\ \A i \in 1..Len(stack) :
          i <= Len(stack') => IsPrefix(stack[i].children, stack'[i].children)
    /\ bt_pc' = "done" => IsPrefix(stack[1].children, forest')

C5_VoidChildless ==
    /\ \A i \in 1..Len(stack) : \A n \in AllNodes(stack[i].children) :
          (n.kind = "Element" /\ n.tag \in VoidSet) => n.children = <<>>
    /\ \A n \in AllNodes(forest) :
          (n.kind = "Element" /\ n.tag \in VoidSet) => n.children = <<>>
    /\ \A i \in 1..Len(stack) : stack[i].tag \notin VoidSet

C5_SlashEquivalence ==
    bt_pc = "loop" =>
        \A name \in VoidSet, attrs \in BtAttrs :
            StepToken(stack, OpenTag(name, attrs, TRUE))
                = StepToken(stack, OpenTag(name, attrs, FALSE))

C5_VoidSelfClosing ==
    /\ [][C5_OpenStep /\ C5_ChildrenKept]_vars
    /\ [](C5_VoidChildless /\ C5_SlashEquivalence)

C5_Witness ==
    /\ Len(bt_tokens) >= 2
    /\ LastToken = OpenTag("br", NoAttrs, FALSE)
    /\ bt_tokens[1] = OpenTag("div", NoAttrs, TRUE)
    /\ Len(stack) = 1
    /\ stack[1].children[1] = Element("div", NoAttrs, <<>>)
    /\ stack[1].children[Len(stack[1].children)] = Element("br", NoAttrs, <<>>)

\* ---------------------------------------------------------------- helpers
\* The first index k >= from with inp[k] = c, or 0.
FirstIndex(inp, c, from) ==
    LET hits == {k \in from..Len(inp) : inp[k] = c}
    IN IF hits = {} THEN 0 ELSE CHOOSE k \in hits : \A j \in hits : k <= j

\* The character that follows the `<` the scanner stands on (NoChar at the end).
AfterLt == IF chars + 2 <= Len(input) THEN input[chars + 2] ELSE NoChar

AtLt == tk_pc = "main" /\ chars < Len(input) /\ input[chars + 1] = "<"

WhiteSpace == {" ", "\n", "\t", "\r"}

\* The maximal runs of non-whitespace characters of str, in order.
RECURSIVE Words(_)
Words(str) ==
    IF str = <<>> THEN <<>>
    ELSE IF Head(str) \in WhiteSpace THEN Words(Tail(str))
    ELSE LET stop == CHOOSE k \in 1..(Len(str) + 1) :
                        /\ k = Len(str) + 1 \/ str[k] \in WhiteSpace
                        /\ \A j \in 1..(k - 1) : str[j] \notin WhiteSpace
         IN <<SubSeq(str, 1, stop - 1)>> \o Words(SubSeq(str, stop, Len(str)))

\* The words joined by single spaces.
RECURSIVE JoinWords(_)
JoinWords(ws) ==
    IF ws = <<>> THEN <<>>
    ELSE IF Len(ws) = 1 THEN ws[1]
    ELSE ws[1] \o <<" ">> \o JoinWords(Tail(ws))

Letters == {"a", "b", "c", "d", "e", "f", "g", "h", "i", "j", "k", "l", "m",
            "n", "o", "p", "q", "r", "s", "t", "u", "v", "w", "x", "y", "z",
            "A", "B", "C", "D", "E", "F", "G", "H", "I", "J", "K", "L", "M",
            "N", "O", "P", "Q", "R", "S", "T", "U", "V", "W", "X", "Y", "Z"}

NameChars == Letters \cup {"0", "1", "2", "3", "4", "5", "6", "7", "8", "9", "-", "_", ":"}

\* ---------------------------------------------------------------- C6
\* C6: tokenize is total and terminates: every iteration of the main loop and
\* of the tag-body loop consumes at least one character or leaves its loop, the
\* position never passes the end of input, and the scan returns at the end.
C6_Progress ==
    \/ chars' > chars
    \/ tk_pc = "main" /\ tk_pc' = "done"
    \/ tk_pc = "body" /\ tk_pc' = "main"

\* A measure every step lowers: the characters left, then the loop nesting.
C6_Measure ==
    3 * (Len(input) - chars)
        + (CASE tk_pc = "body" -> 2 [] tk_pc = "main" -> 1 [] OTHER -> 0)

C6_MeasureNext ==
    3 * (Len(input) - chars')
        + (CASE tk_pc' = "body" -> 2 [] tk_pc' = "main" -> 1 [] OTHER -> 0)

C6_InRange ==
    /\ chars \in 0..Len(input)
    /\ tk_pc = "done" => chars = Len(input)
    /\ tk_iter <= chars + 1
    /\ tk_pc # "done" => tk_iter < MaxIter

\* Until it returns, the scanner always has a next step.
C6_NotStuck == tk_pc # "done" => ENABLED TkNext

C6_TokenizeTerminates ==
    /\ [][C6_Progress /\ C6_MeasureNext < C6_Measure]_vars
    /\ []C6_InRange

\* "<a href='x >y": the input ends inside a quoted attribute value.
C6_Witness ==
    /\ tk_pc = "done"
    /\ input = <<"<", "a", " ", "h", "r", "e", "f", "=", "'", "x", " ", ">", "y">>
    /\ tokens = <<OpenTag("a", {<<"href", "x >y">>}, FALSE)>>

\* ---------------------------------------------------------------- C7
\* C7 (as claimed): when `<` is followed by a character that starts neither a
\* close tag, `<!`, `<?` nor a tag name, "<3" being such a case, the scanner
\* skips through the next `>` and emits no token.
C7_AsClaimed ==
    [][(AtLt /\ AfterLt \notin {"/", "!", "?"} \cup Letters)
        => /\ tokens' = tokens
           /\ tk_pc' = "main"
           /\ chars' = IF FirstIndex(input, ">", chars + 2) = 0 THEN Len(input)
                       ELSE FirstIndex(input, ">", chars + 2)
      ]_vars

\* C7 (amended): the construct is discarded when the character after `<` is
\* none of `/`, `!`, `?` and no name character (alphanumeric, `-`, `_`, `:`),
\* or the input ends there: no token, the scanner resumes after the next `>`.
\* A digit is a name character: "<3" opens a tag named "3".
C7_EmptyNameDiscarded ==
    [][/\ (AtLt /\ AfterLt \notin {"/", "!", "?"} \cup NameChars)
            => /\ tokens' = tokens
               /\ tk_pc' = "main"
               /\ chars' = IF FirstIndex(input, ">", chars + 2) = 0 THEN Len(input)
                           ELSE FirstIndex(input, ">", chars + 2)
       /\ (AtLt /\ AfterLt \in NameChars)
            => /\ tk_pc' = "body"
               /\ tk_name' # ""
               /\ tokens' = tokens
       /\ (tk_pc = "body" /\ tk_pc' = "main")
            => /\ Len(tokens') = Len(tokens) + 1
               /\ tokens'[Len(tokens')].type = "OpenTag"
               /\ tokens'[Len(tokens')].name = tk_name
       /\ (tk_pc = "done" /\ input = <<"<", "3", ">">>)
            => tokens = <<OpenTag("3", {}, FALSE)>>
      ]_vars

\* "<=a>" has been scanned: nothing was emitted.
C7_Witness ==
    /\ input = <<"<", "=", "a", ">">>
    /\ tk_pc = "done"
    /\ tokens = <<>>

\* ---------------------------------------------------------------- C8
\* C8: every Text token is non-empty, has no leading or trailing whitespace and
\* no two adjacent whitespace characters, each whitespace run of the source
\* being one space; a run of only whitespace emits no token.
C8_Shape ==
    \A k \in 1..Len(tokens) :
        tokens[k].type = "Text" =>
            LET t == tokens[k].content
            IN /\ t # <<>>
               /\ t[1] \notin WhiteSpace
               /\ t[Len(t)] \notin WhiteSpace
               /\ \A j \in 1..Len(t) : t[j] \in WhiteSpace => t[j] = " "
               /\ \A j \in 1..(Len(t) - 1) : ~(t[j] \in WhiteSpace /\ t[j + 1] \in WhiteSpace)

C8_TextStep ==
    (tk_pc = "main" /\ chars < Len(input) /\ input[chars + 1] # "<")
        => LET stop == FirstIndex(input, "<", chars + 1)
               end == IF stop = 0 THEN Len(input) ELSE stop - 1
               run == SubSeq(input, chars + 1, end)
               text == JoinWords(Words(run))
           IN /\ chars' = end
              /\ tokens' = IF text = <<>> THEN tokens ELSE Append(tokens, TextTok(text))

C8_WhitespaceCollapsed == []C8_Shape /\ [][C8_TextStep]_vars

\* "<p>  a   b\n c </p>" has been scanned.
C8_Witness ==
    /\ tk_pc = "done"
    /\ input = Tagged(<<"p">>, <<" ", " ", "a", " ", " ", " ", "b", "\n", " ", "c", " ">>)
    /\ tokens[2] = TextTok(<<"a", " ", "b", " ", "c">>)

\* ---------------------------------------------------------------- C9
\* C9: "<n>text</n>" with a valid name n and non-blank text yields exactly
\* OpenTag(lowercase n, no attributes, not self-closing), Text(collapsed text),
\* CloseTag(lowercase n); tokens are only ever appended, in scan order.
C9_Name == SubSeq(input, 2, FirstIndex(input, ">", 1) - 1)

C9_Text ==
    SubSeq(input, FirstIndex(input, ">", 1) + 1,
           FirstIndex(input, "<", FirstIndex(input, ">", 1) + 1) - 1)

C9_WellFormed ==
    /\ FirstIndex(input, ">", 1) > 2
    /\ FirstIndex(input, "<", FirstIndex(input, ">", 1) + 1) > 0
    /\ input = Tagged(C9_Name, C9_Text)
    /\ \A k \in 1..Len(C9_Name) : C9_Name[k] \in NameChars
    /\ \E k \in 1..Len(C9_Text) : C9_Text[k] \notin WhiteSpace

C9_ThreeTokens ==
    /\ (tk_pc = "done" /\ C9_WellFormed)
          => tokens = <<OpenTag(Join(to_lowercase(C9_Name)), {}, FALSE),
                        TextTok(JoinWords(Words(C9_Text))),
                        CloseTag(Join(to_lowercase(C9_Name)))>>
    /\ (tk_pc = "done" /\ input = <<"<", "P", ">", "H", "i", "<", "/", "P", ">">>)
          => tokens = <<OpenTag("p", {}, FALSE), TextTok(<<"H", "i">>), CloseTag("p")>>

C9_Appended ==
    /\ chars' >= chars
    /\ tokens' = tokens \/ (Len(tokens') = Len(tokens) + 1 /\ IsPrefix(tokens, tokens'))

C9_TokenOrder == []C9_ThreeTokens /\ [][C9_Appended]_vars

C9_Witness ==
    /\ tk_pc = "done"
    /\ input = Tagged(<<"D", "i", "v">>, <<"H", "i">>)
    /\ tokens = <<OpenTag("div", {}, FALSE), TextTok(<<"H", "i">>), CloseTag("div")>>

\* ---------------------------------------------------------------- C10
\* The calls of the named functions that have returned so far.
CallsOf(fns) == {i \in 1..Len(ctx.calls) : ctx.calls[i].fn \in fns}

NonDecreasing(fns) == \A i \in CallsOf(fns) : ctx.calls[i].ret >= ctx.calls[i].y

\* C10: for every forest and viewport width, every call of layout_node,
\* layout_element and layout_list returns a cursor greater than or equal to
\* the cursor it was given, and so the y of layout's loop never is below the
\* one it started from.
C10_CursorOnlyIncreases ==
    ly_pc # "idle" =>
        /\ NonDecreasing({"layout_node", "layout_element", "layout_list"})
        /\ y >= PAGE_PAD

\* What does hold: with a content area that is not negative (a viewport at
\* least 2 * PAGE_PAD wide) no call of any layout function lowers the cursor,
\* and layout_list never lowers it whatever the width.
C10_NonNegativeContentWidth ==
    ly_pc # "idle" =>
        /\ ctx.width >= 0 =>
              NonDecreasing({"layout_node", "layout_element", "layout_list",
                             "layout_children", "layout_img", "block", "heading"})
        /\ NonDecreasing({"layout_list"})

C10_ImageLaidOut ==
    /\ ly_pc = "done"
    /\ ctx.width >= 0
    /\ \E i \in 1..Len(ctx.boxes) : ctx.boxes[i].cmd.cmd = "Image"
    /\ \E i \in CallsOf({"layout_list"}) : ctx.calls[i].ret > ctx.calls[i].y + 16 * Unit

\* ---------------------------------------------------------------- helpers
\* A list marker is the only Text box painted in the muted marker colour.
IsMarker(b) == b.cmd.cmd = "Text" /\ b.cmd.color = MarkerColor /\ b.width = MARKER_INDENT
\* A full-bleed background spans the viewport from x = 0.
IsFullBleed(b) == b.cmd.cmd = "FillRect"
IsFlowBox(b) == ~IsMarker(b) /\ ~IsFullBleed(b)

FlowBoxes == SelectSeq(ctx.boxes, IsFlowBox)

NonDecreasingY(bs) == \A i, j \in 1..Len(bs) : i < j => bs[i].y <= bs[j].y

\* ---------------------------------------------------------------- C11
\* C11: for every forest, in the box sequence returned by layout the y of each
\* box that is neither a full-bleed background nor a list marker is greater
\* than or equal to the y of every such box emitted before it.
C11_MonotonicBoxes == ly_pc # "idle" => NonDecreasingY(FlowBoxes)

\* What does hold: with a content area that is not negative the y of the boxes
\* never decreases, list markers included.
C11_NonNegativeContentWidth ==
    (ly_pc # "idle" /\ ctx.width >= 0) => NonDecreasingY(ctx.boxes)

C11_SeveralBoxes ==
    /\ ly_pc = "done"
    /\ ctx.width >= 0
    /\ Len(FlowBoxes) >= 4
    /\ \E i \in 1..Len(ctx.boxes) : IsMarker(ctx.boxes[i])
    /\ \E i \in 1..Len(ctx.boxes) : ctx.boxes[i].cmd.cmd = "Image"

\* ---------------------------------------------------------------- helpers
\* The marker texts the document calls for, in document order.  d is the
\* number of lists enclosing the nodes.  Lists are laid out unless they sit in
\* a skipped element, in a void element, or directly in a list outside an li.
NotLaidOut == SkipTags \cup {"br", "hr", "img"}

Numerals == << <<"1", ".">>, <<"2", ".">>, <<"3", ".">>, <<"4", ".">>, <<"5", ".">>,
               <<"6", ".">>, <<"7", ".">>, <<"8", ".">>, <<"9", ".">>,
               <<"1", "0", ".">>, <<"1", "1", ".">>, <<"1", "2", ".">>,
               <<"9", "9", ".">>, <<"1", "0", "0", ".">> >>
NumeralOf(i) == IF i <= 12 THEN Numerals[i] ELSE IF i = 99 THEN Numerals[13] ELSE Numerals[14]
Counters == (1..12) \cup {99, 100}

Glyph(d) == IF d = 1 THEN <<"U+2022">> ELSE IF d = 2 THEN <<"U+25E6">> ELSE <<"U+25AA">>

ExpectedMarker(list_tag, d, i) == IF list_tag = "ol" THEN NumeralOf(i) ELSE Glyph(d)

RECURSIVE ExpectedMarkers(_, _)
RECURSIVE ExpectedItemMarkers(_, _, _, _)
ExpectedMarkers(ns, d) ==
    IF ns = <<>> THEN <<>>
    ELSE LET n == Head(ns)
             own == IF n.kind = "Text" \/ n.tag \in NotLaidOut THEN <<>>
                    ELSE IF n.tag \in {"ul", "ol"}
                    THEN ExpectedItemMarkers(n.tag, n.children, d + 1, 1)
                    ELSE ExpectedMarkers(n.children, d)
         IN own \o ExpectedMarkers(Tail(ns), d)
ExpectedItemMarkers(list_tag, items, d, i) ==
    IF items = <<>> THEN <<>>
    ELSE IF ~IsLi(Head(items)) THEN ExpectedItemMarkers(list_tag, Tail(items), d, i)
    ELSE <<ExpectedMarker(list_tag, d, i)>>
         \o ExpectedMarkers(Head(items).children, d)
         \o ExpectedItemMarkers(list_tag, Tail(items), d, i + 1)

MarkerBoxes == SelectSeq(ctx.boxes, IsMarker)
MarkerTexts == [i \in 1..Len(MarkerBoxes) |-> MarkerBoxes[i].cmd.content]
LaidOut == SubSeq(nodes, 1, ly_idx)

IsNumeral(text) == text[Len(text)] = "."
IsGlyph(text) == ~IsNumeral(text)

\* ---------------------------------------------------------------- C12
\* C12: the markers of the li children of every ol carry "1.", "2.", ..., "k."
\* in emission order, the i-th li getting "i."; every list starts at 1, a
\* nested ol does not disturb the enclosing numbering, and children that are
\* not li consume no number.
C12_Decimal == \A n \in Counters : Append(format_usize(n), ".") = NumeralOf(n)

C12_ListNumbering ==
    /\ C12_Decimal
    /\ ly_pc # "idle" =>
          SelectSeq(MarkerTexts, IsNumeral)
              = SelectSeq(ExpectedMarkers(LaidOut, 0), IsNumeral)

\* An ol whose third li holds a nested ol of two items, with a text between the
\* first and the second li: 1. 2. 3. 1. 2.
C12_Witness ==
    /\ ly_pc = "done"
    /\ Len(nodes) = 1 /\ nodes[1].kind = "Element" /\ nodes[1].tag = "ol"
    /\ Len(nodes[1].children) = 4 /\ nodes[1].children[2].kind = "Text"
    /\ MarkerTexts = <<NumeralOf(1), NumeralOf(2), NumeralOf(3), NumeralOf(1), NumeralOf(2)>>

\* ---------------------------------------------------------------- C13
\* C13: the bullet of a ul's items depends only on d, the number of ul/ol
\* lists enclosing the items (the list itself included): one glyph for d = 1,
\* a second for d = 2, a third for d >= 3.
C13_IndentIsDepth ==
    \A i \in 1..Len(ctx.boxes) :
        IsMarker(ctx.boxes[i]) =>
            \E d \in 1..Len(ctx.boxes) :
                /\ ctx.boxes[i].x = ctx.pad + (d - 1) * MARKER_INDENT
                /\ IsGlyph(ctx.boxes[i].cmd.content) => ctx.boxes[i].cmd.content = Glyph(d)

C13_MarkerTiering ==
    ly_pc # "idle" =>
        /\ SelectSeq(MarkerTexts, IsGlyph) = SelectSeq(ExpectedMarkers(LaidOut, 0), IsGlyph)
        /\ C13_IndentIsDepth

\* Three nested ul: the three glyphs in turn.
C13_Witness ==
    /\ ly_pc = "done"
    /\ MarkerTexts = <<Glyph(1), Glyph(2), Glyph(3)>>
    /\ Glyph(1) # Glyph(2) /\ Glyph(2) # Glyph(3) /\ Glyph(1) # Glyph(3)
    /\ MarkerBoxes[1].x < MarkerBoxes[2].x /\ MarkerBoxes[2].x < MarkerBoxes[3].x

\* ---------------------------------------------------------------- helpers
HeadingSize(tag) == IF tag = "h1" THEN 32 * Unit ELSE IF tag = "h2" THEN 24 * Unit ELSE 20 * Unit
HeadingTags == {"h1", "h2", "h3"}

\* The style the claim gives a text by the tags of its ancestors (outermost
\* first).
RECURSIVE NearestHeadingSize(_)
NearestHeadingSize(anc) ==
    IF anc = <<>> THEN 16 * Unit
    ELSE IF anc[Len(anc)] \in HeadingTags THEN HeadingSize(anc[Len(anc)])
    ELSE NearestHeadingSize(SubSeq(anc, 1, Len(anc) - 1))

StyleByAncestors(anc) ==
    LET tags == Range(anc)
    IN [bold |-> tags \cap ({"strong"} \cup HeadingTags) # {},
        italic |-> "em" \in tags,
        underline |-> "a" \in tags,
        color |-> IF "a" \in tags THEN 238 ELSE 0,
        font_size |-> NearestHeadingSize(anc)]

\* The styles of the texts that are laid out, in document order.
RECURSIVE ExpectedStyles(_, _)
RECURSIVE ExpectedItemStyles(_, _)
ExpectedStyles(ns, anc) ==
    IF ns = <<>> THEN <<>>
    ELSE LET n == Head(ns)
             own == IF n.kind = "Text"
                    THEN IF trim(n.content) = <<>> THEN <<>> ELSE <<StyleByAncestors(anc)>>
                    ELSE IF n.tag \in NotLaidOut THEN <<>>
                    ELSE IF n.tag \in {"ul", "ol"}
                    THEN ExpectedItemStyles(n.children, Append(anc, n.tag))
                    ELSE ExpectedStyles(n.children, Append(anc, n.tag))
         IN own \o ExpectedStyles(Tail(ns), anc)
ExpectedItemStyles(items, anc) ==
    IF items = <<>> THEN <<>>
    ELSE (IF IsLi(Head(items)) THEN ExpectedStyles(Head(items).children, Append(anc, "li"))
          ELSE <<>>)
         \o ExpectedItemStyles(Tail(items), anc)

IsContentText(b) == b.cmd.cmd = "Text" /\ ~IsMarker(b)
ContentTexts == SelectSeq(ctx.boxes, IsContentText)
StyleOf(b) ==
    [bold |-> b.cmd.bold, italic |-> b.cmd.italic, underline |-> b.cmd.underline,
     color |-> b.cmd.color, font_size |-> b.cmd.font_size]

\* ---------------------------------------------------------------- C14
\* C14: a style override applies to the subtree of the element that sets it and
\* to nothing else: every Text box that is not a marker is bold iff its text
\* has an ancestor strong, h1, h2 or h3, italic iff it has an ancestor em,
\* underlined and 0x0000EE iff it has an ancestor a (else 0x000000, not
\* underlined), and has the font size of its nearest h1/h2/h3 ancestor
\* (32/24/20), or 16 without one.
C14_StyleIsolation ==
    ly_pc # "idle" =>
        [i \in 1..Len(ContentTexts) |-> StyleOf(ContentTexts[i])]
            = ExpectedStyles(LaidOut, <<>>)

\* h1 > (h3 > text, text), a > ul > li > text, text: the sibling after the h3
\* is back at 32, the text after the h1 back at 16 and not bold, the text
\* after the link black.
C14_Witness ==
    /\ ly_pc = "done"
    /\ Len(ContentTexts) = 4
    /\ StyleOf(ContentTexts[1]) = [bold |-> TRUE, italic |-> FALSE, underline |-> FALSE,
                                   color |-> 0, font_size |-> 20 * Unit]
    /\ StyleOf(ContentTexts[2]) = [bold |-> TRUE, italic |-> FALSE, underline |-> FALSE,
                                   color |-> 0, font_size |-> 32 * Unit]
    /\ StyleOf(ContentTexts[3]) = [bold |-> FALSE, italic |-> FALSE, underline |-> TRUE,
                                   color |-> LinkColor, font_size |-> 16 * Unit]
    /\ StyleOf(ContentTexts[4]) = StyleOf(LayoutBox(0, 0, 0, 0, TextCmd(<<>>, DefaultStyle)))

\* ---------------------------------------------------------------- C15
\* The box a returned layout_img call pushed, if it pushed one.
Pushed(call) == call.to > call.from
BoxOf(call) == ctx.boxes[call.to]

\* C15: for a decoded image of intrinsic size (w, h) and content width cw the
\* Image box has width min(cw, w) and height h * min(cw, w) / w: with w <= cw
\* it is w by h, with w > cw it is cw wide in the same aspect ratio; the
\* cursor advances by the displayed height plus 8.
C15_ImageBox(call) ==
    LET b == BoxOf(call)
        w == b.cmd.img_width
        h == b.cmd.img_height
        cw == ctx.width
    IN /\ call.to = call.from + 1
       /\ b.cmd.cmd = "Image"
       /\ b.x = ctx.pad /\ b.y = call.y
       /\ b.width = Min(cw, w * Unit)
       /\ b.height * w = h * b.width
       /\ w * Unit <= cw => (b.width = w * Unit /\ b.height = h * Unit)
       /\ w * Unit > cw => b.width = cw
       /\ call.ret = call.y + b.height + 8 * Unit

C15_ImageScaling ==
    ly_pc # "idle" =>
        /\ \A i \in CallsOf({"layout_img"}) : Pushed(ctx.calls[i]) => C15_ImageBox(ctx.calls[i])
        /\ \A i \in 1..Len(ctx.boxes) :
              ctx.boxes[i].cmd.cmd = "Image" =>
                  \E j \in CallsOf({"layout_img"}) : ctx.calls[j].to = i

\* A 1000 x 500 image in a content area 768 wide is laid out 768 x 384.
C15_Witness ==
    /\ ly_pc = "done"
    /\ ctx.width = 768 * Unit
    /\ \E i \in CallsOf({"layout_img"}) :
          /\ Pushed(ctx.calls[i])
          /\ BoxOf(ctx.calls[i]).cmd = Image(1000, 500)
          /\ BoxOf(ctx.calls[i]).width = 768 * Unit
          /\ BoxOf(ctx.calls[i]).height = 384 * Unit
          /\ ctx.calls[i].ret = ctx.calls[i].y + 392 * Unit

\* ---------------------------------------------------------------- C16
\* An img without src, or whose file cannot be opened and decoded.
FailedImage(n) ==
    /\ n.kind = "Element" /\ n.tag = "img"
    /\ LET src == get(n.attrs, "src")
       IN ~src.some \/ ~open(ctx.base_dir, src.value).ok

\* The forest with its failed img elements taken out.
RECURSIVE WithoutFailedImages(_)
WithoutFailedImages(ns) ==
    IF ns = <<>> THEN <<>>
    ELSE LET n == Head(ns)
             rest == WithoutFailedImages(Tail(ns))
         IN IF FailedImage(n) THEN rest
            ELSE IF n.kind = "Text" THEN <<n>> \o rest
            ELSE <<Element(n.tag, n.attrs, WithoutFailedImages(n.children))>> \o rest

RECURSIVE HasFailedImage(_)
HasFailedImage(ns) ==
    \E i \in 1..Len(ns) :
        FailedImage(ns[i]) \/ (ns[i].kind = "Element" /\ HasFailedImage(ns[i].children))

\* C16: an img with no src, or whose file cannot be read or decoded, emits no
\* box and returns the cursor unchanged, and the boxes and the cursor of the
\* whole layout are those of the forest without the img.
C16_ImageFailureNoOp ==
    ly_pc # "idle" =>
        /\ \A i \in CallsOf({"layout_img"}) :
              ~Pushed(ctx.calls[i]) => ctx.calls[i].ret = ctx.calls[i].y
        /\ LET without == layout_loop(WithoutFailedImages(LaidOut),
                                      NewCtx(viewport_width, ctx.base_dir), PAGE_PAD)
           IN /\ ctx.boxes = without.ctx.boxes
              /\ y = without.y

\* A failed img in a paragraph between two texts, before a rule and a text.
C16_Witness ==
    /\ ly_pc = "done"
    /\ ctx.width >= 0
    /\ HasFailedImage(nodes)
    /\ nodes # WithoutFailedImages(nodes)
    /\ \E i \in CallsOf({"layout_img"}) :
          /\ ~Pushed(ctx.calls[i])
          /\ ctx.calls[i].from >= 1
          /\ ctx.calls[i].to + 3 <= Len(ctx.boxes)

SeveralMatch ==
    /\ Consumed("CloseTag")
    /\ Cardinality(FramesWithTag(stack, NextToken.name)) >= 2

\* C18 as stated: only the topmost frame with the tag is closed, with the
\* frames above it; every frame below it stays open on the stack with its
\* children unchanged.
C18_AsClaimed ==
    [][SeveralMatch
        => LET top == TopmostWithTag(stack, NextToken.name)
           IN /\ bt_pc' = "loop"
              /\ Len(stack') = top - 1
              /\ \A i \in 1..(top - 1) : stack'[i] = stack[i]
      ]_vars

\* C18: only the topmost frame with the tag is closed, with the frames above
\* it; every frame below it stays open, those below its parent unchanged, and
\* its parent keeps its children and gains the closed element as its last child.
C18_MostRecentMatch ==
    [][SeveralMatch
        => LET top == TopmostWithTag(stack, NextToken.name)
           IN /\ bt_pc' = "loop"
              /\ Len(stack') = top - 1
              /\ \A i \in 1..(top - 2) : stack'[i] = stack[i]
              /\ stack'[top - 1] =
                     [stack[top - 1] EXCEPT !.children = Append(@, Nested(stack, top))]
              /\ FramesWithTag(stack', NextToken.name)
                     = FramesWithTag(stack, NextToken.name) \ {top}
      ]_vars

\* <div><div id=x><p></div>: the inner div is closed with the p in it, the
\* outer div stays open and holds the inner one.
C18_Witness ==
    /\ bt_pc = "loop"
    /\ bt_tokens = <<OpenTag("div", NoAttrs, FALSE), OpenTag("div", {<<"id", "x">>}, FALSE),
                     OpenTag("p", NoAttrs, FALSE), CloseTag("div")>>
    /\ stack = <<VirtualRoot,
                 Partial("div", NoAttrs,
                         <<Element("div", {<<"id", "x">>},
                                   <<Element("p", NoAttrs, <<>>)>>)>>)>>

\* ---------------------------------------------------------------- C19
\* The step is the one in which tokenize pushes an OpenTag.
OpenTagEmitted ==
    /\ tk_pc = "body" /\ tk_pc' = "main"
    /\ Len(tokens') = Len(tokens) + 1
    /\ tokens'[Len(tokens')].type = "OpenTag"

\* The scanner has just consumed a '>' or is at the end of the input.
PastClosingGt == chars' = Len(input) \/ input[chars'] = ">"

\* The character parse_tag_body breaks on.
BreakChar == peek(input, skip_whitespace(input, chars))
LoneSlash ==
    /\ BreakChar = "/"
    /\ peek(input, next(input, skip_whitespace(input, chars))) # ">"

\* C19: after tokenize emits an OpenTag the scanner is just past the tag's
\* closing '>' (or at the end of the input if there is none), so nothing
\* between the tag name and that '>' is emitted as Text; also when the body
\* holds a '/' that is not immediately followed by '>'.
C19_BodyConsumed == [][OpenTagEmitted => PastClosingGt]_vars

\* What does hold: the body is consumed through '>' unless parse_tag_body
\* breaks on a '/' that no '>' follows immediately.
C19_UnlessLoneSlash == [][(OpenTagEmitted /\ ~LoneSlash) => PastClosingGt]_vars

\* "<a/a>": the OpenTag a, then the rest of the tag as the Text "a>".
C19_TagTailAsText ==
    /\ tk_pc = "done"
    /\ input = <<"<", "a", "/", "a", ">">>
    /\ tokens = <<OpenTag("a", NoAttrs, FALSE), TextTok(<<"a", ">">>)>>

\* ---------------------------------------------------------------- C20
\* The items laid out so far: the history records of the passes over li.
Items == CallsOf({"li"})
\* An item's marker is the first box of its pass; its content is laid out by
\* the layout_children call that returns just before the pass ends.
MarkerOf(i) == ctx.boxes[ctx.calls[i].from + 1]
ContentOf(i) == ctx.calls[i - 1]
\* Item j is the item after item i in the same list.
NextItem(i, j) ==
    /\ i < j
    /\ ctx.calls[j].from = ctx.calls[i].to
    /\ ctx.calls[j].y = ctx.calls[i].ret
    /\ MarkerOf(j).x = MarkerOf(i).x

\* C20: for each li laid out at cursor y with line height h = 1.4 * font_size
\* the cursor after the item is max(bottom of the li's content, y + h) + 4; an
\* empty li advances the cursor by h + 4; the markers of successive items of a
\* list are at strictly increasing y, at least h + 4 apart.
C20_Item(i) ==
    LET item == ctx.calls[i]
        h == MarkerOf(i).height
    IN /\ IsMarker(MarkerOf(i)) /\ MarkerOf(i).y = item.y
       /\ 10 * h = 14 * MarkerOf(i).cmd.font_size
       /\ ContentOf(i).fn = "layout_children"
       /\ ContentOf(i).y = item.y /\ ContentOf(i).from = item.from + 1
       /\ item.ret = Max(ContentOf(i).ret, item.y + h) + 4 * Unit
       /\ item.arg = <<>> => item.ret = item.y + h + 4 * Unit
       /\ \A j \in Items :
             NextItem(i, j) => /\ MarkerOf(j).y > MarkerOf(i).y
                               /\ MarkerOf(j).y >= MarkerOf(i).y + h + 4 * Unit

C20_ItemProgress == ly_pc # "idle" => \A i \in Items : C20_Item(i)

\* An ol with an item of one text, an empty item, and an item holding a list.
C20_Witness ==
    /\ ly_pc = "done"
    /\ \E i, j, k \in Items :
          /\ NextItem(i, j) /\ NextItem(j, k)
          /\ ctx.calls[i].to = ctx.calls[i].from + 2
          /\ ctx.calls[j].arg = <<>>
          /\ ctx.calls[j].ret = ctx.calls[j].y + line_height(16 * Unit) + 4 * Unit
          /\ ctx.calls[k].ret > ctx.calls[k].y + line_height(16 * Unit) + 4 * Unit
          /\ ctx.calls[k].ret = ContentOf(k).ret + 4 * Unit

\* ---------------------------------------------------------------- C21
IsList(n) == n.kind = "Element" /\ n.tag \in {"ul", "ol"}

\* The forest with, in every list, the children that are not li taken out.
RECURSIVE WithoutStrays(_, _)
WithoutStrays(ns, in_list) ==
    IF ns = <<>> THEN <<>>
    ELSE LET n == Head(ns)
             rest == WithoutStrays(Tail(ns), in_list)
         IN IF in_list /\ ~IsLi(n) THEN rest
            ELSE IF n.kind = "Text" THEN <<n>> \o rest
            ELSE <<Element(n.tag, n.attrs, WithoutStrays(n.children, IsList(n)))>> \o rest

HasNoLi(n) == \A i \in 1..Len(n.children) : ~IsLi(n.children[i])

\* C21: a direct child of ul/ol that is a text or an element other than li
\* (a directly nested ul/ol included) produces no box, of its own or of a
\* descendant, changes no cursor and takes no number: the boxes and the cursor
\* are those of the forest without it; a list without li children advances
\* the cursor by exactly 16 and emits nothing.
C21_NonLiIgnored ==
    ly_pc # "idle" =>
        /\ LET without == layout_loop(WithoutStrays(LaidOut, FALSE),
                                      NewCtx(viewport_width, ctx.base_dir), PAGE_PAD)
           IN /\ ctx.boxes = without.ctx.boxes
              /\ y = without.y
        /\ \A i \in CallsOf({"layout_node"}) :
              (IsList(ctx.calls[i].arg) /\ HasNoLi(ctx.calls[i].arg))
                  => /\ ctx.calls[i].ret = ctx.calls[i].y + 16 * Unit
                     /\ ctx.calls[i].to = ctx.calls[i].from

\* An ol with a text between its first and second li: the second li is "2.".
C21_Witness ==
    /\ ly_pc = "done"
    /\ Len(nodes) = 1 /\ IsList(nodes[1]) /\ nodes[1].tag = "ol"
    /\ \E i \in 1..Len(nodes[1].children) :
          nodes[1].children[i].kind = "Text" /\ trim(nodes[1].children[i].content) # <<>>
    /\ nodes # WithoutStrays(nodes, FALSE)
    /\ Len(MarkerTexts) >= 2 /\ MarkerTexts[2] = NumeralOf(2)
    /\ MarkerBoxes[2].y = MarkerBoxes[1].y + line_height(16 * Unit) + 4 * Unit

\* ---------------------------------------------------------------- C22
IsSkipped(n) ==
    n.kind = "Element" /\ n.tag \in {"head", "title", "script", "style", "meta", "link"}

\* The forest with its skipped elements taken out.
RECURSIVE WithoutSkipped(_)
WithoutSkipped(ns) ==
    IF ns = <<>> THEN <<>>
    ELSE LET n == Head(ns)
             rest == WithoutSkipped(Tail(ns))
         IN IF IsSkipped(n) THEN rest
            ELSE IF n.kind = "Text" THEN <<n>> \o rest
            ELSE <<Element(n.tag, n.attrs, WithoutSkipped(n.children))>> \o rest

\* C22: laying out a head, title, script, style, meta or link element emits no
\* box, for it or for a descendant of any tag, and returns the cursor
\* unchanged: the boxes and the cursor of the document are those of the
\* document without the element.
C22_SkippedContributeNothing ==
    ly_pc # "idle" =>
        /\ \A i \in CallsOf({"layout_node"}) :
              IsSkipped(ctx.calls[i].arg)
                  => /\ ctx.calls[i].ret = ctx.calls[i].y
                     /\ ctx.calls[i].to = ctx.calls[i].from
        /\ LET without == layout_loop(WithoutSkipped(LaidOut),
                                      NewCtx(viewport_width, ctx.base_dir), PAGE_PAD)
           IN /\ ctx.boxes = without.ctx.boxes
              /\ y = without.y

\* script, style, meta and link elements with texts, a paragraph, a rule and a
\* list in them, in a div between two texts: two Text boxes, one line apart.
C22_Witness ==
    /\ ly_pc = "done"
    /\ Len(nodes) = 3
    /\ \A tag \in {"script", "style", "meta", "link"} :
          \E i \in CallsOf({"layout_node"}) :
              ctx.calls[i].arg.kind = "Element" /\ ctx.calls[i].arg.tag = tag
                  /\ ctx.calls[i].arg.children # <<>>
    /\ Len(ctx.boxes) = 2
    /\ ctx.boxes[2].y = ctx.boxes[1].y + line_height(16 * Unit)

\* ---------------------------------------------------------------- C23
\* The boxes that are laid out, in emission order: for each one whether it is a
\* list marker, the tag of its node ("" for a text) and the number of ul/ol
\* lists that enclose the node.
RECURSIVE ExpectedOrigins(_, _)
RECURSIVE ExpectedItemOrigins(_, _)
ExpectedOrigins(ns, lists) ==
    IF ns = <<>> THEN <<>>
    ELSE LET n == Head(ns)
             own == IF n.kind = "Text"
                    THEN IF trim(n.content) = <<>> THEN <<>>
                         ELSE << [marker |-> FALSE, tag |-> "", lists |-> lists] >>
                    ELSE IF n.tag = "hr"
                    THEN << [marker |-> FALSE, tag |-> "hr", lists |-> lists] >>
                    ELSE IF n.tag = "img"
                    THEN IF FailedImage(n) THEN <<>>
                         ELSE << [marker |-> FALSE, tag |-> "img", lists |-> lists] >>
                    ELSE IF n.tag \in NotLaidOut THEN <<>>
                    ELSE IF n.tag \in {"ul", "ol"}
                    THEN ExpectedItemOrigins(n.children, lists + 1)
                    ELSE ExpectedOrigins(n.children, lists)
         IN own \o ExpectedOrigins(Tail(ns), lists)
ExpectedItemOrigins(items, lists) ==
    IF items = <<>> THEN <<>>
    ELSE (IF IsLi(Head(items))
          THEN << [marker |-> TRUE, tag |-> "li", lists |-> lists] >>
                   \o ExpectedOrigins(Head(items).children, lists)
          ELSE <<>>)
         \o ExpectedItemOrigins(Tail(items), lists)

Origins == ExpectedOrigins(LaidOut, 0)
ContentWidth == viewport_width - 32 * Unit
IndentOf(o) == 24 * Unit * o.lists

\* The geometry the claim gives the k-th box.
C23_Geometry(k) ==
    LET b == ctx.boxes[k]
        o == Origins[k]
    IN IF o.marker
       THEN IsMarker(b) /\ b.x = ctx.pad + IndentOf(o) - 24 * Unit /\ b.width = 24 * Unit
       ELSE b.x = ctx.pad + IndentOf(o) /\ b.width = ContentWidth - IndentOf(o)

\* C23: every emitted box that is neither a list marker nor a full-bleed
\* background has x = pad + indent and width = content_width - indent, with
\* indent = 24 times the number of ul/ol lists that enclose its node and
\* content_width = viewport_width - 32; every marker box has
\* x = pad + indent - 24 and width 24.
C23_HorizontalGeometry ==
    ly_pc # "idle" =>
        /\ Len(ctx.boxes) = Len(Origins)
        /\ \A k \in 1..Len(ctx.boxes) : C23_Geometry(k)

\* C23, for the boxes of texts and the markers: they follow the indent.
C23_TextAndMarkerGeometry ==
    ly_pc # "idle" =>
        /\ Len(ctx.boxes) = Len(Origins)
        /\ \A k \in 1..Len(ctx.boxes) : Origins[k].tag \in {"", "li"} => C23_Geometry(k)

\* The boxes of hr and img elements start at the page margin whatever the
\* indent, and a rule is as wide as the whole content column.
C23_RuleAndImageAtPad ==
    ly_pc # "idle" =>
        /\ Len(ctx.boxes) = Len(Origins)
        /\ \A k \in 1..Len(ctx.boxes) :
              /\ Origins[k].tag \in {"hr", "img"} => ctx.boxes[k].x = ctx.pad
              /\ Origins[k].tag = "hr" => ctx.boxes[k].width = ContentWidth

\* ul > li > (hr, text): the rule starts at the page margin, left of the
\* marker's right edge, the text one indent further in.
C23_RuleInList ==
    /\ ly_pc = "done"
    /\ Len(ctx.boxes) = 3
    /\ IsMarker(ctx.boxes[1])
    /\ ctx.boxes[2].cmd.cmd = "HLine"
    /\ ctx.boxes[2].x = ctx.boxes[1].x
    /\ ctx.boxes[3].x = ctx.boxes[1].x + ctx.boxes[1].width
    /\ ctx.boxes[2].width = ctx.boxes[3].width + 24 * Unit

\* ---------------------------------------------------------------- C24
IsHeading(n) == n.kind = "Element" /\ n.tag \in HeadingTags
HeadingTop(tag) == IF tag = "h1" THEN 24 * Unit ELSE IF tag = "h2" THEN 20 * Unit ELSE 16 * Unit
HeadingBottom(tag) == IF tag = "h1" THEN 16 * Unit ELSE IF tag = "h2" THEN 12 * Unit ELSE 8 * Unit

\* Styles a heading can inherit: the default, that of a link in an em in a
\* list, that of an h1.
C24_Styles ==
    {DefaultStyle,
     [DefaultStyle EXCEPT !.italic = TRUE, !.color = LinkColor, !.underline = TRUE,
                          !.indent = 2 * MARKER_INDENT],
     [DefaultStyle EXCEPT !.font_size = 32 * Unit, !.bold = TRUE]}

\* The layout_node calls made on headings so far.
HeadingCalls == {i \in CallsOf({"layout_node"}) : IsHeading(ctx.calls[i].arg)}

\* The call on a heading follows those of layout_element and heading, and that
\* of heading the layout_children call on the heading's children.
C24_Cursor(i) ==
    LET call == ctx.calls[i]
        kids == ctx.calls[i - 3]
    IN /\ ctx.calls[i - 1].fn = "layout_element" /\ ctx.calls[i - 2].fn = "heading"
       /\ kids.fn = "layout_children" /\ kids.arg = call.arg.children
       /\ kids.y = call.y + HeadingTop(call.arg.tag)
       /\ call.ret = kids.ret + HeadingBottom(call.arg.tag)
       /\ kids.from = call.from /\ kids.to = call.to

\* A heading entered with `style` lays its children out as layout_children
\* does from y + mt with that style made bold and given the heading's size.
C24_Style(n, cy, style) ==
    LET c == NewCtx(viewport_width, ctx.base_dir)
        r == layout_node(n, c, cy, style)
        kids == layout_children(n.children, c, cy + HeadingTop(n.tag),
                                [style EXCEPT !.bold = TRUE, !.font_size = HeadingSize(n.tag)])
    IN r.ctx.boxes = kids.ctx.boxes /\ r.y = kids.y + HeadingBottom(n.tag)

\* heading called with a background and a border colour: the background box
\* comes first, the border box last, the children's boxes between them.
C24_Decorated(n, cy, style) ==
    LET c == NewCtx(viewport_width, ctx.base_dir)
        top == cy + HeadingTop(n.tag)
        r == heading(n.children, c, cy, style, HeadingSize(n.tag), HeadingTop(n.tag),
                     HeadingBottom(n.tag), Some(1), Some(2))
        kids == layout_children(n.children, c, top,
                                [style EXCEPT !.bold = TRUE, !.font_size = HeadingSize(n.tag)])
        bs == r.ctx.boxes
    IN /\ Len(bs) = Len(kids.ctx.boxes) + 2
       /\ bs[1].cmd = FillRect(1) /\ bs[1].x = 0 /\ bs[1].width = viewport_width
       /\ SubSeq(bs, 2, Len(bs) - 1) = kids.ctx.boxes
       /\ bs[Len(bs)].cmd = HLine(2) /\ bs[Len(bs)].y = kids.y + 4 * Unit
       /\ r.y = kids.y + 5 * Unit + HeadingBottom(n.tag)

\* C24: an h1/h2/h3 entered at y lays out its children from y + mt with
\* bold = true and font size 32/24/20, every other style field inherited, and
\* returns the cursor after the children plus mb, (mt, mb) being (24, 16),
\* (20, 12), (16, 8); a background box comes before the children's boxes and a
\* border box after them.
C24_HeadingGeometry ==
    ly_pc # "idle" =>
        \A i \in HeadingCalls :
            /\ C24_Cursor(i)
            /\ \A style \in C24_Styles :
                  /\ C24_Style(ctx.calls[i].arg, ctx.calls[i].y, style)
                  /\ C24_Decorated(ctx.calls[i].arg, ctx.calls[i].y, style)

\* A lone h2 with a text: the text is at 16 + 20, bold, 24 high by 1.4, and
\* the cursor ends 12 below it.
C24_Witness ==
    /\ ly_pc = "done"
    /\ Len(nodes) = 1 /\ IsHeading(nodes[1]) /\ nodes[1].tag = "h2"
    /\ HeadingCalls # {}
    /\ Len(ctx.boxes) = 1
    /\ ctx.boxes[1].y = 36 * Unit
    /\ ctx.boxes[1].cmd.bold /\ ctx.boxes[1].cmd.font_size = 24 * Unit
    /\ y = 36 * Unit + line_height(24 * Unit) + 12 * Unit

\* ---------------------------------------------------------------- C25
TextCalls == {i \in CallsOf({"layout_node"}) : ctx.calls[i].arg.kind = "Text"}
IsBlank(n) == trim(n.content) = <<>>

C25_Text(call) ==
    IF IsBlank(call.arg)
    THEN call.to = call.from /\ call.ret = call.y
    ELSE /\ call.to = call.from + 1
         /\ LET b == ctx.boxes[call.to]
            IN /\ b.cmd.cmd = "Text"
               /\ b.cmd.content = trim(call.arg.content)
               /\ b.y = call.y
               /\ 10 * b.height = 14 * b.cmd.font_size
               /\ call.ret = call.y + b.height

\* C25: a text node that is not empty after trimming emits exactly one Text
\* box, at the cursor it was given and 1.4 times the font size high, and
\* returns the cursor plus that height; one that is empty after trimming emits
\* no box and returns the cursor unchanged.
C25_TextNode == ly_pc # "idle" => \A i \in TextCalls : C25_Text(ctx.calls[i])

\* A blank text, then a text: the one box is at the top of the page, 22.4
\* high, and the cursor ends just below it.
C25_Witness ==
    /\ ly_pc = "done"
    /\ Len(nodes) = 2
    /\ nodes[1].kind = "Text" /\ IsBlank(nodes[1])
    /\ nodes[2].kind = "Text" /\ ~IsBlank(nodes[2])
    /\ Cardinality(TextCalls) = 2
    /\ Len(ctx.boxes) = 1
    /\ ctx.boxes[1].y = PAGE_PAD /\ ctx.boxes[1].height = 224
    /\ y = PAGE_PAD + 224

\* ---------------------------------------------------------------- C28
\* What the nodes that produce a box produce, in depth-first pre-order: a text
\* its trimmed content, an hr a line, a decoded img an image, an li its marker
\* and then what its children produce.
RECURSIVE PreOrder(_)
RECURSIVE PreOrderItems(_)
PreOrder(ns) ==
    IF ns = <<>> THEN <<>>
    ELSE LET n == Head(ns)
             own == IF n.kind = "Text"
                    THEN IF trim(n.content) = <<>> THEN <<>>
                         ELSE << [cmd |-> "Text", content |-> trim(n.content)] >>
                    ELSE IF n.tag = "hr" THEN << [cmd |-> "HLine", content |-> <<>>] >>
                    ELSE IF n.tag = "img"
                    THEN IF FailedImage(n) THEN <<>>
                         ELSE << [cmd |-> "Image", content |-> <<>>] >>
                    ELSE IF n.tag \in NotLaidOut THEN <<>>
                    ELSE IF n.tag \in {"ul", "ol"} THEN PreOrderItems(n.children)
                    ELSE PreOrder(n.children)
         IN own \o PreOrder(Tail(ns))
PreOrderItems(items) ==
    IF items = <<>> THEN <<>>
    ELSE (IF IsLi(Head(items))
          THEN << [cmd |-> "Marker", content |-> <<>>] >> \o PreOrder(Head(items).children)
          ELSE <<>>)
         \o PreOrderItems(Tail(items))

Produced(b) ==
    IF IsMarker(b) THEN [cmd |-> "Marker", content |-> <<>>]
    ELSE IF b.cmd.cmd = "Text" THEN [cmd |-> "Text", content |-> b.cmd.content]
    ELSE [cmd |-> b.cmd.cmd, content |-> <<>>]

StartsWithText(li_children) ==
    /\ li_children # <<>>
    /\ li_children[1].kind = "Text"
    /\ trim(li_children[1].content) # <<>>

\* The first box of an item's pass is its marker, every other box of the pass
\* is pushed by the layout of the li's children, after it.
C28_MarkerFirst(i) ==
    LET item == ctx.calls[i]
    IN /\ IsMarker(MarkerOf(i))
       /\ ContentOf(i).fn = "layout_children" /\ ContentOf(i).arg = item.arg
       /\ ContentOf(i).from = item.from + 1 /\ ContentOf(i).to = item.to
       /\ StartsWithText(item.arg) =>
             /\ item.to >= item.from + 2
             /\ ctx.boxes[item.from + 2].cmd.content = trim(item.arg[1].content)
             /\ ctx.boxes[item.from + 2].y = MarkerOf(i).y

\* C28: the boxes layout returns are in the depth-first pre-order of the nodes
\* that produce them; the marker of an li comes immediately before the boxes
\* of the li's content, and is at the y of the first of them when the li
\* starts with a text that is not blank.
C28_EmissionOrder ==
    ly_pc # "idle" =>
        /\ [k \in 1..Len(ctx.boxes) |-> Produced(ctx.boxes[k])] = PreOrder(LaidOut)
        /\ \A i \in Items : C28_MarkerFirst(i)

\* The document of six different texts: a, b, marker, c, marker, d, marker,
\* rule, e, f, the first marker at the y of c.
C28_Witness ==
    /\ ly_pc = "done"
    /\ Len(ctx.boxes) = 10
    /\ [k \in 1..Len(ContentTexts) |-> ContentTexts[k].cmd.content]
          = << <<"a">>, <<"b">>, <<"c">>, <<"d">>, <<"e">>, <<"f">> >>
    /\ IsMarker(ctx.boxes[3]) /\ ctx.boxes[3].y = ctx.boxes[4].y
    /\ IsMarker(ctx.boxes[7]) /\ ctx.boxes[8].cmd.cmd = "HLine"
    /\ ctx.boxes[8].y > ctx.boxes[7].y

\* ---------------------------------------------------------------- C26
\* The nodes of a forest in depth-first pre-order, each Element without its
\* children.
RECURSIVE Walk(_)
Walk(ns) ==
    IF ns = <<>> THEN <<>>
    ELSE LET n == Head(ns)
         IN (IF n.kind = "Text" THEN <<n>>
             ELSE <<[kind |-> "Element", tag |-> n.tag, attrs |-> n.attrs]>> \o Walk(n.children))
            \o Walk(Tail(ns))

\* The same walk over the frames still open: each frame above the virtual
\* root is an element whose children so far come before the next frame.
RECURSIVE StackWalk(_, _)
StackWalk(st, i) ==
    IF i > Len(st) THEN <<>>
    ELSE (IF i = 1 THEN <<>>
          ELSE <<[kind |-> "Element", tag |-> st[i].tag, attrs |-> st[i].attrs]>>)
         \o Walk(st[i].children) \o StackWalk(st, i + 1)

\* The nodes the OpenTag and Text tokens stand for, in token order.
RECURSIVE TokenOrder(_)
TokenOrder(toks) ==
    IF toks = <<>> THEN <<>>
    ELSE LET t == Head(toks)
         IN (CASE t.type = "OpenTag" -> <<[kind |-> "Element", tag |-> t.name, attrs |-> t.attrs]>>
               [] t.type = "Text" -> <<TextNode(t.content)>>
               [] OTHER -> <<>>)
            \o TokenOrder(Tail(toks))

\* C26: a depth-first pre-order walk of the forest build_tree returns visits
\* the Element and Text nodes in the order of their OpenTag and Text tokens,
\* each Element with the name and attributes of its OpenTag; the same holds of
\* the open frames after every token, so a close tag changes nesting only.
C26_DocumentOrder ==
    /\ bt_pc = "loop" => StackWalk(stack, 1) = TokenOrder(bt_tokens)
    /\ bt_pc = "done" => Walk(forest) = TokenOrder(bt_tokens)

\* <div><p id=x>A</div>: the close tag closes both elements, the forest is
\* div > p > A.
C26_Witness ==
    /\ bt_pc = "done"
    /\ Len(bt_tokens) = 4
    /\ bt_tokens[4] = CloseTag("div")
    /\ forest = <<Element("div", NoAttrs,
                          <<Element("p", {<<"id", "x">>}, <<TextNode(<<"A">>)>>)>>)>>
    /\ Len(Walk(forest)) = 3

\* ---------------------------------------------------------------- C27
\* build_tree's loop run over a token sequence: the stack after its last token.
RECURSIVE BuildStack(_)
BuildStack(toks) ==
    IF toks = <<>> THEN Running(<<VirtualRoot>>)
    ELSE LET s == BuildStack(SubSeq(toks, 1, Len(toks) - 1))
         IN IF s.panicked THEN s ELSE StepToken(s.stack, toks[Len(toks)])

NoEmptyName(toks) ==
    \A i \in 1..Len(toks) : toks[i].type \in {"OpenTag", "CloseTag"} => toks[i].name # ""

\* The stack is not empty, its bottom frame is the virtual root and no other
\* frame has the empty tag.
RootAtBottom(s) ==
    /\ ~s.panicked
    /\ Len(s.stack) >= 1
    /\ s.stack[1].tag = ""
    /\ \A i \in 2..Len(s.stack) : s.stack[i].tag # ""

\* C27: tokenize never emits an OpenTag or CloseTag with an empty name, so
\* build_tree run over the tokens emitted so far (every prefix of tokenize's
\* output) has a stack that is not empty, with the virtual root at the bottom
\* and no other frame of empty tag, and its flush and final pop do not panic;
\* the input "</>" gives no token.
C27_RootNeverClosed ==
    tk_pc # "idle" =>
        /\ NoEmptyName(tokens)
        /\ RootAtBottom(BuildStack(tokens))
        /\ LET s == Flush(BuildStack(tokens))
           IN ~s.panicked /\ Len(s.stack) = 1 /\ s.stack[1].tag = ""
        /\ (tk_pc = "done" /\ input = <<"<", "/", ">">>) => tokens = <<>>

\* "</><a>": the bare close tag is dropped, the OpenTag is emitted and
\* build_tree has the frame of a above the root.
C27_Witness ==
    /\ tk_pc = "done"
    /\ input = <<"<", "/", ">", "<", "a">>
    /\ Len(tokens) = 1 /\ tokens[1].type = "OpenTag" /\ tokens[1].name = "a"
    /\ Len(BuildStack(tokens).stack) = 2

\* ---------------------------------------------------------------- C29
InRange == 0 <= scroll_y /\ scroll_y <= max_scroll(boxes, window)

\* C29: after any sequence of window events (mouse wheel, key presses,
\* resizes) 0 <= scroll_y <= max_scroll for the current viewport and box
\* list, with max_scroll = max(0, document height - viewport height + 16).
C29_ScrollInRange == rd_pc # "idle" => InRange

\* What does hold: scroll_y is never negative, every wheel and key event
\* leaves it within the range of the current viewport, Home at 0 and End at
\* max_scroll, and it leaves the range only by a resize.
C29_ScrollStep ==
    /\ (RdMouseWheel \/ \E key \in RdKeys \ {"Tab"} : RdKey("Pressed", key)) => InRange'
    /\ RdKey("Pressed", "Home") => scroll_y' = 0
    /\ RdKey("Pressed", "End") => scroll_y' = max_scroll(boxes, window)
    /\ (InRange /\ ~InRange') => RdResized
C29_ClampedByScrolling ==
    /\ [](rd_pc # "idle" => scroll_y >= 0)
    /\ [][C29_ScrollStep]_vars

\* End on the tall document in the 600 high window, then the window is made
\* 1000 high: scroll_y is still where End put it, 400 past the new maximum.
C29_StaleAfterResize ==
    /\ rd_pc = "run"
    /\ window = Window(1000, 1)
    /\ scroll_y = doc_h(boxes) - 600 * Unit + 16 * Unit
    /\ scroll_y = max_scroll(boxes, window) + 400 * Unit
====
